---------------------------- MODULE Spec2Model ----------------------------
(***************************************************************************)
(* A model of the evidence pipeline of hallucination_controlled_rag:       *)
(*   - AnswerVerifier.verify            (generation/answer_verifier.py)    *)
(*   - CitationExtractor.extract_and_map (generation/citation_extractor.py)*)
(*   - CrossEncoderReranker.rerank      (retrieval/cross_encoder.py)       *)
(*   - SemanticChunker.chunk            (preprocessing/chunker.py)         *)
(*   - FaissIndex                       (retrieval/faiss_index.py)         *)
(*   - run_query_pipeline               (pipeline/query_pipeline.py)       *)
(*   - ask_question / upload_pdf        (api/app.py)                       *)
(*                                                                         *)
(* Floats are kept exact: a similarity is an integer number of hundredths, *)
(* a ratio is a reduced fraction [num, den].  Texts are sequences of       *)
(* sentence records; a sentence record holds what the code reads from the  *)
(* sentence (its length, its opening words, its [En] markers) and what the *)
(* opaque embedder yields for it (its cosine similarity to the evidence).  *)
(*                                                                         *)
(* The module holds several specifications over one set of variables:      *)
(*   SpecVerify    verify applied to bounded answers and evidence          *)
(*   SpecPipeline  one call of run_query_pipeline, direct or via /ask      *)
(*   SpecIndex     one FaissIndex, its two files, failures and restarts    *)
(*   SpecUpload    an /upload request racing with an /ask request          *)
(*   SpecCite      the prompt's evidence blocks and the citation extractor *)
(*   SpecRerank    CrossEncoderReranker.rerank on bounded candidate lists  *)
(*   SpecChunk     SemanticChunker.chunk on bounded sentence lists         *)
(*   SpecUploads   two /upload requests on the shared index                *)
(* Each specification keeps the variables of the others at their idle      *)
(* values.                                                                 *)
(***************************************************************************)
EXTENDS Integers, Sequences, FiniteSets, TLC

VARIABLES
    (* SpecVerify *)
    v_pc,          \* "build" | "done"
    v_answer,      \* the answer handed to verify: a sequence of sentences
    v_nev,         \* number of evidence chunks handed to verify
    v_cfg,         \* the verifier's constructor parameters
    v_result,      \* the dict verify returned

    (* SpecPipeline *)
    q_pc,          \* position inside ask_question / run_query_pipeline
    q_caller,      \* "direct" | "ask_question"
    q_question,    \* the question: "" or a non-blank text
    q_failed,      \* the step whose collaborator raised, or "none"
    q_index,       \* the FaissIndex the query runs on: [ntotal, chunks]
    q_calls,       \* the collaborators called so far, in order
    q_retrieved,   \* index.search's result
    q_evidence,    \* reranker.rerank's result
    q_answer,      \* llm.generate's result
    q_cres,        \* extract_and_map's result
    q_vres,        \* verify's result
    q_out,         \* what run_query_pipeline did: nothing yet, return, raise
    q_http,        \* what ask_question did: nothing yet, return, raise

    (* SpecIndex and SpecUpload: the shared FaissIndex and its files *)
    i_vecs,        \* self.index: the stored vectors, each tagged with its chunk
    i_chunks,      \* self.chunks: the metadata list
    f_index,       \* the file at index_path: a vector list, or NoFile
    f_meta,        \* the file at meta_path: a metadata list, or NoFile
    i_pc,          \* position of the index operation in progress
    i_arg,         \* the argument of the operation in progress
    i_ops,         \* operations started so far (bounds the run)
    i_call,        \* the call in progress (or the last one): its name, its
                   \* argument, and self.index and self.chunks when it began
    i_trip,        \* a save() followed by a load(): how far it is, and
                   \* self.index and self.chunks when the save began

    (* SpecUpload: the two requests *)
    u_pc,          \* position of the /upload request
    u_doc,         \* the document being uploaded
    u_before,      \* the index ([vecs, chunks]) when the upload began
    u_status,      \* the /upload response
    u_failed,      \* the step of the /upload request that raised, or "none"
    r_pc,          \* position of the /ask request
    r_seen,        \* what the /ask request read from the index, in order
    r_hits,        \* the positions faiss returned to the /ask request
    r_resp,        \* the /ask response

    (* SpecCite: PromptBuilder and CitationExtractor on the same evidence *)
    c_pc,          \* position: prompt, generate, extract, done
    c_evidence,    \* the evidence chunks (reranker.rerank's result)
    c_prompt,      \* the evidence blocks PromptBuilder put in the prompt
    c_answer,      \* the generated answer, a sequence of sentences
    c_cres,        \* extract_and_map's result

    (* SpecRerank: CrossEncoderReranker.rerank *)
    k_pc,          \* "build" | "done"
    k_candidates,  \* retrieved_chunks, the list handed to rerank
    k_xscore,      \* the cross-encoder's score of each candidate
    k_cfg,         \* [max_passages, top_n]
    k_result,      \* the list rerank returned

    (* SpecChunk: SemanticChunker.chunk *)
    h_pc,          \* "build" | "loop" | "done"
    h_cfg,         \* [max_tokens, min_tokens, overlap_tokens]
    h_sentences,   \* the sentences the splitter kept, in document order
    h_i,           \* the loop variable i of chunk (0-based, as in the code)
    h_current,     \* current_sentences, as positions in h_sentences
    h_embeddings,  \* current_embeddings, as positions in h_sentences
    h_tokens,      \* current_tokens
    h_chunks,      \* chunks, the list being returned

    (* SpecUploads: two /upload requests on the shared index *)
    w_pc,          \* position of each /upload request
    w_resp         \* the response of each /upload request

v_vars == <<v_pc, v_answer, v_nev, v_cfg, v_result>>
q_vars == <<q_pc, q_caller, q_question, q_failed, q_index, q_calls, q_retrieved, q_evidence,
            q_answer, q_cres, q_vres, q_out, q_http>>
i_vars == <<i_vecs, i_chunks, f_index, f_meta, i_pc, i_arg, i_ops, i_call, i_trip>>
u_vars == <<u_pc, u_doc, u_before, u_status, u_failed, r_pc, r_seen, r_hits, r_resp>>
c_vars == <<c_pc, c_evidence, c_prompt, c_answer, c_cres>>
k_vars == <<k_pc, k_candidates, k_xscore, k_cfg, k_result>>
h_vars == <<h_pc, h_cfg, h_sentences, h_i, h_current, h_embeddings, h_tokens, h_chunks>>
w_vars == <<w_pc, w_resp>>
vars == <<v_vars, q_vars, i_vars, u_vars, c_vars, k_vars, h_vars, w_vars>>

----------------------------------------------------------------------------
(* Bounds of the model *)

MaxSent == 3          \* sentences in an answer handed to verify
MaxEvidence == 2      \* evidence chunks handed to verify
MaxChunks == 2        \* chunks / vectors in the index a query runs on
MaxAnswerLen == 2     \* sentences in an answer the generator returns
MaxOps == 5           \* index operations and crashes in one run of SpecIndex
MaxStored == 3        \* vectors an index holds in SpecIndex
MaxCandidates == 3    \* candidates handed to rerank in SpecRerank
MaxSentences == 4     \* sentences handed to the chunker's loop in SpecChunk

(* Program constants *)

MinSentenceLength == 20     \* AnswerVerifier.__init__ min_sentence_length
MarkerLen == 4              \* len("[E1]")
DefaultThreshold == 35      \* settings.VERIFICATION_SIMILARITY_THRESHOLD, x100
DefaultRatio == 60          \* settings.VERIFICATION_UNSUPPORTED_RATIO, x100

----------------------------------------------------------------------------
(* Generic helpers *)

RECURSIVE Gcd(_, _)
Gcd(a, b) == IF b = 0 THEN a ELSE Gcd(b, a % b)

Abs(n) == IF n < 0 THEN -n ELSE n

\* The float n/d, kept exact as a reduced fraction (d > 0).
Frac(n, d) ==
    LET g == Gcd(Abs(n), d)
    IN  [num |-> n \div g, den |-> d \div g]

One == [num |-> 1, den |-> 1]
Zero == [num |-> 0, den |-> 1]

\* a > b on fractions with positive denominators
FracGt(a, b) == a.num * b.den > b.num * a.den

FracSub(a, b) == Frac(a.num * b.den - b.num * a.den, a.den * b.den)

RECURSIVE SumSeq(_)
SumSeq(s) == IF s = <<>> THEN 0 ELSE s[1] + SumSeq(Tail(s))

Range(s) == {s[i] : i \in DOMAIN s}

----------------------------------------------------------------------------
(* Sentences.  body: characters left once the [En] markers are removed;    *)
(* opener: which discourse pattern the sentence starts with; cites: the    *)
(* numbers of its [En] markers in order; best/at: the cosine similarity    *)
(* (x100) of its embedding to evidence chunk `at`; to every other chunk    *)
(* the similarity is LowSim.                                               *)

LowSim == 0 - 10

SentenceLen(s) == s.body + MarkerLen * Len(s.cites)

\* AnswerVerifier.FILLER_PATTERNS matched against the cleaned, lowered text.
\* The first pattern needs the whole sentence to be one discourse word, which
\* is always shorter than min_sentence_length.
VerifierFillerMatch(s) == s.opener \in {"this_is", "these_are", "based_on_the", "for_example"}

\* AnswerVerifier._is_substantive
Verifier_is_substantive(s, min_sentence_length) ==
    IF SentenceLen(s) < min_sentence_length THEN FALSE
    ELSE IF s.body < min_sentence_length THEN FALSE
    ELSE IF VerifierFillerMatch(s) THEN FALSE
    ELSE TRUE

\* cosine_similarity(sentence, evidence chunk j)
Cosine(s, j) == IF s.at = j THEN s.best ELSE LowSim

\* float(np.max(similarities)) over the nev evidence embeddings (nev >= 1)
MaxSimilarity(s, nev) ==
    LET sims == {Cosine(s, j) : j \in 1..nev}
    IN  CHOOSE m \in sims : \A x \in sims : x <= m

\* AnswerVerifier._unsupported
Verifier_unsupported(sentences) ==
    [verdict |-> "unsupported",
     unsupported_sentences |-> sentences,
     confidence |-> Zero,
     support_ratio |-> Zero]

\* The mutation of VerdictPolicy that rejects at the limit (>= for >).
VerdictPolicyAtLimit(n_unsupported, n_substantive, min_unsupported_ratio) ==
    IF ~FracGt(Frac(min_unsupported_ratio, 100), Frac(n_unsupported, n_substantive))
        THEN "unsupported"
    ELSE IF n_unsupported > 0 THEN "partially_supported"
    ELSE "supported"

\* AnswerVerifier.verify, the three returns at its end: which one is taken.
VerdictPolicy(n_unsupported, n_substantive, min_unsupported_ratio) ==
    IF FracGt(Frac(n_unsupported, n_substantive), Frac(min_unsupported_ratio, 100))
        THEN "unsupported"
    ELSE IF n_unsupported > 0 THEN "partially_supported"
    ELSE "supported"

\* The substantive sentences of an answer, as verify filters them.
SubstantiveSentences(answer, cfg) ==
    SelectSeq(answer, LAMBDA s : Verifier_is_substantive(s, cfg.min_sentence_length))

\* Mutation of UnsupportedSentences: the comparison is turned round.
UnsupportedSentencesAbove(substantive, nev, cfg) ==
    SelectSeq(substantive, LAMBDA s : MaxSimilarity(s, nev) > cfg.similarity_threshold)

\* Mutation of UnsupportedSentences: a similarity equal to the threshold is
\* unsupported too (<= for <).
UnsupportedSentencesAtThreshold(substantive, nev, cfg) ==
    SelectSeq(substantive, LAMBDA s : MaxSimilarity(s, nev) <= cfg.similarity_threshold)

\* The sentences verify marks unsupported: max_sim < similarity_threshold.
UnsupportedSentences(substantive, nev, cfg) ==
    SelectSeq(substantive, LAMBDA s : MaxSimilarity(s, nev) < cfg.similarity_threshold)

\* Mutation of Verifier_no_substantive: nothing to check is not support.
Verifier_no_substantive_rejected == Verifier_unsupported(<<>>)

\* AnswerVerifier.verify, lines 86-92: the return when no sentence of the
\* answer is substantive
Verifier_no_substantive ==
    [verdict |-> "supported",
     unsupported_sentences |-> <<>>,
     confidence |-> One,
     support_ratio |-> One]

\* AnswerVerifier.verify(answer, evidence_chunks) with nev evidence chunks
verify(answer, nev, cfg) ==
    IF answer = <<>> \/ nev = 0 THEN Verifier_unsupported(answer)
    ELSE
    LET substantive == SubstantiveSentences(answer, cfg)
    IN  IF substantive = <<>>
        THEN Verifier_no_substantive
        ELSE
        LET unsupported == UnsupportedSentences(substantive, nev, cfg)
            unsupported_ratio == Frac(Len(unsupported), Len(substantive))
            scores == [i \in 1..Len(substantive) |-> MaxSimilarity(substantive[i], nev)]
            avg_confidence == Frac(SumSeq(scores), 100 * Len(substantive))
            verdict == VerdictPolicy(Len(unsupported), Len(substantive),
                                     cfg.min_unsupported_ratio)
        IN  [verdict |-> verdict,
             unsupported_sentences |->
                 IF verdict = "supported" THEN <<>> ELSE unsupported,
             confidence |-> avg_confidence,
             support_ratio |->
                 IF verdict = "supported" THEN One
                 ELSE FracSub(One, unsupported_ratio)]

----------------------------------------------------------------------------
(* Sorting as Python's list.sort(key=..., reverse=True): descending by     *)
(* score, equal scores keep their original order.                          *)

RECURSIVE SortIdxDescFrom(_, _)
SortIdxDescFrom(score, remaining) ==
    IF remaining = {} THEN <<>>
    ELSE LET first == CHOOSE i \in remaining : \A j \in remaining :
                          score[i] > score[j] \/ (score[i] = score[j] /\ i <= j)
         IN  <<first>> \o SortIdxDescFrom(score, remaining \ {first})

\* Mutation of SortIdxDesc: equal scores come out in reversed order (an
\* ascending sort that is then reversed).
SortIdxDescTiesReversed(score) ==
    LET n == Len(score)
        mirrored == [i \in 1..n |-> score[n + 1 - i]]
        order == SortIdxDescFrom(mirrored, DOMAIN mirrored)
    IN  [k \in 1..n |-> n + 1 - order[k]]

\* the positions 1..Len(score), best score first, ties in original order
SortIdxDesc(score) == SortIdxDescFrom(score, DOMAIN score)

Min(a, b) == IF a <= b THEN a ELSE b

Prefix(s, n) == SubSeq(s, 1, Min(n, Len(s)))

----------------------------------------------------------------------------
(* FaissIndex.search.  vecs is the content of self.index (one entry per    *)
(* stored vector), chunks is self.chunks, qscore[i] the inner product of   *)
(* the query with vector i.  faiss returns the top_k positions by score.   *)

TopK == 20                  \* run_query_pipeline: index.search(..., top_k=20)
TopN == 8                   \* run_query_pipeline: reranker.rerank(..., top_n=8)
MaxPassages == 20           \* CrossEncoderReranker.__init__ max_passages
DefaultTopN == 5             \* CrossEncoderReranker.rerank top_n

FaissHits(qscore, top_k) == Prefix(SortIdxDesc(qscore), top_k)

WithScore(chunk, score) ==
    [chunk_id |-> chunk.chunk_id, doc_id |-> chunk.doc_id,
     page_start |-> chunk.page_start, page_end |-> chunk.page_end,
     text |-> chunk.text, similarity_score |-> score]

\* The loop of FaissIndex.search over the hits: a hit is kept when its
\* position has a metadata entry (idx >= 0 and idx < len(self.chunks)).
SearchResults(hits, qscore, chunks) ==
    LET kept == SelectSeq(hits, LAMBDA h : h <= Len(chunks))
    IN  [k \in 1..Len(kept) |-> WithScore(chunks[kept[k]], qscore[kept[k]])]

\* FaissIndex.search(query_embedding, top_k)
FaissIndex_search(ntotal, chunks, qscore, top_k) ==
    IF ntotal = 0 THEN <<>>
    ELSE SearchResults(FaissHits(qscore, top_k), qscore, chunks)

----------------------------------------------------------------------------
(* CrossEncoderReranker.rerank.  xscore[i] is the cross-encoder's score of *)
(* candidate i.                                                            *)

WithCrossScore(chunk, score) ==
    [chunk_id |-> chunk.chunk_id, doc_id |-> chunk.doc_id,
     page_start |-> chunk.page_start, page_end |-> chunk.page_end,
     text |-> chunk.text, similarity_score |-> chunk.similarity_score,
     cross_score |-> score]

rerank(retrieved_chunks, xscore, max_passages, top_n) ==
    IF retrieved_chunks = <<>> THEN <<>>
    ELSE
    LET candidates == Prefix(retrieved_chunks, max_passages)
        scores == [i \in 1..Len(candidates) |-> xscore[i]]
        order == SortIdxDesc(scores)
        scored_chunks == [k \in 1..Len(order) |->
                             WithCrossScore(candidates[order[k]], scores[order[k]])]
    IN  Prefix(scored_chunks, top_n)

----------------------------------------------------------------------------
(* CitationExtractor.extract_and_map *)

\* CitationExtractor._is_substantive: the raw length, then three patterns.
ExtractorFillerMatch(s) == s.opener \in {"this_is", "based_on_the", "based_on_our"}

Extractor_is_substantive(s) ==
    IF SentenceLen(s) < 20 THEN FALSE
    ELSE IF ExtractorFillerMatch(s) THEN FALSE
    ELSE TRUE

\* evidence_map[E<idx>], idx counted from 1
EvidenceEntry(evidence_chunks, idx) ==
    [evidence_id |-> idx,
     doc_id |-> evidence_chunks[idx].doc_id,
     page_start |-> evidence_chunks[idx].page_start,
     page_end |-> evidence_chunks[idx].page_end,
     text_preview |-> <<evidence_chunks[idx].text, "...">>]

RECURSIVE Flatten(_)
Flatten(ss) == IF ss = <<>> THEN <<>> ELSE ss[1] \o Flatten(Tail(ss))

\* every [En] marker of the answer, in order of appearance
AllMarkers(answer) == Flatten([i \in 1..Len(answer) |-> answer[i].cites])

RECURSIVE FirstAppearanceRepeated(_, _)
\* Mutation of FirstAppearance: an id is listed every time it appears (the
\* `seen` set is not consulted).
FirstAppearanceRepeated(markers, wanted) ==
    IF markers = <<>> THEN <<>>
    ELSE IF markers[1] \in wanted
         THEN <<markers[1]>> \o FirstAppearanceRepeated(Tail(markers), wanted)
         ELSE FirstAppearanceRepeated(Tail(markers), wanted)

RECURSIVE FirstAppearance(_, _)
\* the members of `wanted` in the order they first appear in `markers`
FirstAppearance(markers, wanted) ==
    IF markers = <<>> THEN <<>>
    ELSE IF markers[1] \in wanted
         THEN <<markers[1]>> \o FirstAppearance(Tail(markers), wanted \ {markers[1]})
         ELSE FirstAppearance(Tail(markers), wanted)

\* Mutation of Coverage: the fraction of the uncited sentences.
CoverageOfUncited(n_cited, total_substantive) ==
    IF total_substantive > 0
    THEN Frac(total_substantive - n_cited, total_substantive) ELSE One

\* Mutation of Coverage: an answer without substantive sentence has
\* coverage 0.0.
CoverageZeroWhenNone(n_cited, total_substantive) ==
    IF total_substantive > 0 THEN Frac(n_cited, total_substantive) ELSE Zero

\* citation_extractor.py:88
Coverage(n_cited, total_substantive) ==
    IF total_substantive > 0 THEN Frac(n_cited, total_substantive) ELSE One

extract_and_map(answer, evidence_chunks) ==
    LET evidence_ids == 1..Len(evidence_chunks)
        found_citations == Range(AllMarkers(answer))
        valid == found_citations \cap evidence_ids
        cited_sentences ==
            SelectSeq(answer, LAMBDA s : Extractor_is_substantive(s) /\ s.cites # <<>>)
        uncited_sentences ==
            SelectSeq(answer, LAMBDA s : Extractor_is_substantive(s) /\ s.cites = <<>>)
        total_substantive == Len(cited_sentences) + Len(uncited_sentences)
        order == FirstAppearance(AllMarkers(answer), valid)
    IN  [answer_with_citations |-> answer,
         inline_citations |->
             [k \in 1..Len(order) |-> EvidenceEntry(evidence_chunks, order[k])],
         citation_map |-> [e \in valid |-> EvidenceEntry(evidence_chunks, e)],
         invalid_citations |-> found_citations \ evidence_ids,
         uncited_sentences |-> uncited_sentences,
         citation_coverage |-> Coverage(Len(cited_sentences), total_substantive)]

----------------------------------------------------------------------------
(* run_query_pipeline and ask_question: the pieces that decide a response *)

FixedText(id) == <<[fixed |-> id]>>

NO_DOCS == FixedText("No documents have been uploaded yet.")
CANNOT_ANSWER == FixedText("I cannot answer based on the provided documents.")
LLM_UNAVAILABLE == FixedText("The language model is temporarily unavailable.")
INTERNAL_ERROR == FixedText("I cannot answer due to an internal error.")
CAVEAT == FixedText("Note: Some aspects of this answer may have limited direct support in the source documents.")

Refusal(text) == [answer |-> text, verdict |-> "refused", citations |-> <<>>]

Return(value) == [kind |-> "return", value |-> value]
Raise(step) == [kind |-> "raise", step |-> step]

\* Mutation of IndexIsEmpty: the guard reads the vector count.
IndexIsEmptyByVectors(index) == index.ntotal = 0

\* query_pipeline.py:25  `if not index.chunks`
IndexIsEmpty(index) == index.chunks = <<>>

\* Mutation of EvidenceIsEmpty: the guard is gone.
EvidenceNeverEmpty(evidence) == FALSE

\* query_pipeline.py:36 `if not retrieved`
RetrievedIsEmpty(retrieved) == retrieved = <<>>

\* query_pipeline.py:50 `if not evidence`
EvidenceIsEmpty(evidence) == evidence = <<>>

\* Mutation of OnGenerateFailure: no except clause around llm.generate.
OnGenerateFailureRaise == Raise("generate")

\* query_pipeline.py:62-68  `except Exception` around llm.generate
OnGenerateFailure == Return(Refusal(LLM_UNAVAILABLE))

\* Mutation of BuildCitations: the list is built back to front.
BuildCitationsReversed(inline_citations) ==
    [k \in 1..Len(inline_citations) |->
        LET c == inline_citations[Len(inline_citations) + 1 - k]
        IN  [evidence_id |-> c.evidence_id, doc_id |-> c.doc_id,
             pages |-> <<c.page_start, c.page_end>>,
             text_preview |-> c.text_preview]]

\* query_pipeline.py:86-94  the citations list
BuildCitations(inline_citations) ==
    [k \in 1..Len(inline_citations) |->
        LET c == inline_citations[k]
        IN  [evidence_id |-> c.evidence_id, doc_id |-> c.doc_id,
             pages |-> <<c.page_start, c.page_end>>,
             text_preview |-> c.text_preview]]

\* Mutation of Dispatch: an unsupported answer is returned with the caveat.
DispatchLeaky(answer, verification, citation_result) ==
    IF verification.verdict \in {"unsupported", "partially_supported"}
    THEN [answer |-> answer \o CAVEAT,
          verdict |-> "partially_supported",
          citations |-> BuildCitations(citation_result.inline_citations),
          confidence |-> verification.confidence,
          support_ratio |-> verification.support_ratio,
          citation_coverage |-> citation_result.citation_coverage,
          uncited_sentences |-> citation_result.uncited_sentences]
    ELSE [answer |-> answer,
          verdict |-> "supported",
          citations |-> BuildCitations(citation_result.inline_citations),
          confidence |-> verification.confidence,
          citation_coverage |-> citation_result.citation_coverage]

\* query_pipeline.py:96-126  verdict dispatch
Dispatch(answer, verification, citation_result) ==
    IF verification.verdict = "unsupported"
    THEN [answer |-> CANNOT_ANSWER,
          verdict |-> "refused",
          unsupported_sentences |-> verification.unsupported_sentences,
          confidence |-> verification.confidence,
          citation_coverage |-> Zero]
    ELSE IF verification.verdict = "partially_supported"
    THEN [answer |-> answer \o CAVEAT,
          verdict |-> "partially_supported",
          citations |-> BuildCitations(citation_result.inline_citations),
          confidence |-> verification.confidence,
          support_ratio |-> verification.support_ratio,
          citation_coverage |-> citation_result.citation_coverage,
          uncited_sentences |-> citation_result.uncited_sentences]
    ELSE [answer |-> answer,
          verdict |-> "supported",
          citations |-> BuildCitations(citation_result.inline_citations),
          confidence |-> verification.confidence,
          citation_coverage |-> citation_result.citation_coverage]

\* Mutation of AskOnException: ask_question has no except clause.
AskOnExceptionRaise == Raise("ask_question")

\* app.py:115-121  `except Exception` in ask_question
AskOnException == Return(Refusal(INTERNAL_ERROR))

----------------------------------------------------------------------------
(* Idle values: what a specification leaves the other variables at *)

NoResult == [verdict |-> "none"]
NoFile == [absent |-> TRUE]
NoCall == [name |-> "none"]
NoTrip == [stage |-> "none"]

V_Idle ==
    /\ v_pc = "idle" /\ v_answer = <<>> /\ v_nev = 0
    /\ v_cfg = [none |-> TRUE] /\ v_result = NoResult

Q_Idle ==
    /\ q_pc = "idle" /\ q_caller = "none" /\ q_question = "" /\ q_failed = "none"
    /\ q_index = [none |-> TRUE]
    /\ q_calls = <<>> /\ q_retrieved = <<>> /\ q_evidence = <<>>
    /\ q_answer = <<>> /\ q_cres = [none |-> TRUE] /\ q_vres = NoResult
    /\ q_out = [kind |-> "none"] /\ q_http = [kind |-> "none"]

I_Idle ==
    /\ i_vecs = <<>> /\ i_chunks = <<>> /\ f_index = NoFile /\ f_meta = NoFile
    /\ i_pc = "idle" /\ i_arg = <<>> /\ i_ops = 0
    /\ i_call = NoCall /\ i_trip = NoTrip

U_Idle ==
    /\ u_pc = "idle" /\ u_doc = 0 /\ u_before = [none |-> TRUE]
    /\ u_status = "none" /\ u_failed = "none"
    /\ r_pc = "idle" /\ r_seen = <<>> /\ r_hits = <<>>
    /\ r_resp = [kind |-> "none"]

C_Idle ==
    /\ c_pc = "idle" /\ c_evidence = <<>> /\ c_prompt = <<>>
    /\ c_answer = <<>> /\ c_cres = [none |-> TRUE]

K_Idle ==
    /\ k_pc = "idle" /\ k_candidates = <<>> /\ k_xscore = <<>>
    /\ k_cfg = [none |-> TRUE] /\ k_result = <<>>

H_Idle ==
    /\ h_pc = "idle" /\ h_cfg = [none |-> TRUE] /\ h_sentences = <<>>
    /\ h_i = 0 /\ h_current = <<>> /\ h_embeddings = <<>>
    /\ h_tokens = 0 /\ h_chunks = <<>>

W_Idle ==
    /\ w_pc = <<>> /\ w_resp = <<>>

----------------------------------------------------------------------------
(* SpecVerify: AnswerVerifier.verify on every answer of at most MaxSent    *)
(* sentences, every number of evidence chunks up to MaxEvidence, and a few *)
(* constructor parameters.                                                 *)

SimLevels == {DefaultThreshold - 1, DefaultThreshold, 100}

\* One sentence for each way _is_substantive can answer.
FillerSentences ==
    { [body |-> 10, opener |-> "plain",   cites |-> <<>>,  best |-> LowSim, at |-> 1],
      [body |-> 18, opener |-> "plain",   cites |-> <<1>>, best |-> LowSim, at |-> 1],
      [body |-> 30, opener |-> "this_is", cites |-> <<>>,  best |-> LowSim, at |-> 1] }

SubstantiveSentencePool ==
    { [body |-> 30, opener |-> "plain", cites |-> <<>>, best |-> b, at |-> a] :
          b \in SimLevels, a \in 1..MaxEvidence }

VerifySentences == FillerSentences \cup SubstantiveSentencePool

VerifierConfigs ==
    { [similarity_threshold |-> t, min_unsupported_ratio |-> r,
       min_sentence_length |-> MinSentenceLength] :
          t \in {DefaultThreshold, 100}, r \in {40, 50, DefaultRatio} }

DefaultConfig ==
    [similarity_threshold |-> DefaultThreshold,
     min_unsupported_ratio |-> DefaultRatio,
     min_sentence_length |-> MinSentenceLength]

V_Init ==
    /\ v_pc = "build"
    /\ v_answer = <<>>
    /\ v_nev \in 0..MaxEvidence
    /\ v_cfg \in VerifierConfigs
    /\ v_result = NoResult
    /\ Q_Idle /\ I_Idle /\ U_Idle /\ C_Idle /\ K_Idle /\ H_Idle /\ W_Idle

\* The generator's text grows by one sentence.
V_AddSentence ==
    /\ v_pc = "build"
    /\ Len(v_answer) < MaxSent
    /\ \E s \in VerifySentences : v_answer' = Append(v_answer, s)
    /\ UNCHANGED <<v_pc, v_nev, v_cfg, v_result, q_vars, i_vars, u_vars, c_vars, k_vars, h_vars, w_vars>>

\* verifier.verify(answer, evidence)
V_Verify ==
    /\ v_pc = "build"
    /\ v_result' = verify(v_answer, v_nev, v_cfg)
    /\ v_pc' = "done"
    /\ UNCHANGED <<v_answer, v_nev, v_cfg, q_vars, i_vars, u_vars, c_vars, k_vars, h_vars, w_vars>>

V_Next == V_AddSentence \/ V_Verify

SpecVerify == V_Init /\ [][V_Next]_vars

----------------------------------------------------------------------------
(* Claims on verify *)

\* The positions of the substantive sentences of the verified answer.
V_SubstantiveIdx ==
    { i \in 1..Len(v_answer) :
          Verifier_is_substantive(v_answer[i], v_cfg.min_sentence_length) }

\* Those whose best similarity to the evidence is below the threshold.
V_UnsupportedIdx ==
    { i \in V_SubstantiveIdx :
          \A j \in 1..v_nev : Cosine(v_answer[i], j) < v_cfg.similarity_threshold }

\* C2: with at least one substantive sentence and non-empty evidence, the
\* verdict is "unsupported" exactly when unsupported/substantive is strictly
\* above min_unsupported_ratio, else "partially_supported" exactly when some
\* sentence is unsupported, else "supported"; a ratio equal to the limit is
\* tolerated.
C2_VerdictPolicy ==
    (v_pc = "done" /\ V_SubstantiveIdx # {} /\ v_nev >= 1) =>
        LET u == Cardinality(V_UnsupportedIdx)
            n == Cardinality(V_SubstantiveIdx)
            over == 100 * u > v_cfg.min_unsupported_ratio * n
        IN  /\ over => v_result.verdict = "unsupported"
            /\ (~over /\ u > 0) => v_result.verdict = "partially_supported"
            /\ (~over /\ u = 0) => v_result.verdict = "supported"

\* C2 witness: one of two substantive sentences is unsupported with the limit
\* at 0.5, and the verdict is partially_supported.
C2_Witness ==
    /\ v_pc = "done" /\ v_nev >= 1
    /\ Cardinality(V_UnsupportedIdx) > 0
    /\ 100 * Cardinality(V_UnsupportedIdx)
           = v_cfg.min_unsupported_ratio * Cardinality(V_SubstantiveIdx)
    /\ v_result.verdict = "partially_supported"

\* C14 (as claimed): when the verified answer has no substantive sentence
\* (the empty answer included), whatever the evidence, the verdict is
\* "supported" with confidence 1.0 and no unsupported sentence.
C14_NoSubstantiveIsSupported ==
    (v_pc = "done" /\ V_SubstantiveIdx = {}) =>
        /\ v_result.verdict = "supported"
        /\ v_result.confidence = One
        /\ v_result.unsupported_sentences = <<>>

\* C14 (amended): when the verified answer has at least one sentence, none
\* of them substantive, and the evidence is not empty, the verdict is
\* "supported" with confidence 1.0 and no unsupported sentence; for the
\* empty answer, or without evidence, the verdict is "unsupported" with
\* confidence 0.0.
C14_FillerOnlyIsSupported ==
    (v_pc = "done") =>
        /\ (V_SubstantiveIdx = {} /\ v_answer # <<>> /\ v_nev >= 1) =>
               /\ v_result.verdict = "supported"
               /\ v_result.confidence = One
               /\ v_result.unsupported_sentences = <<>>
        /\ (v_answer = <<>> \/ v_nev = 0) =>
               /\ v_result.verdict = "unsupported"
               /\ v_result.confidence = Zero

\* an answer of a short sentence and a discourse-marker sentence, verified
\* against evidence: supported
C14_Witness ==
    /\ v_pc = "done" /\ v_nev >= 1
    /\ Len(v_answer) = 2 /\ V_SubstantiveIdx = {}
    /\ v_answer[1].opener = "plain" /\ v_answer[2].opener = "this_is"
    /\ v_result.verdict = "supported"

\* the thresholds a verifier is compared at
ThresholdLevels == {0, DefaultThreshold - 1, DefaultThreshold, DefaultThreshold + 1, 100}

V_At(t) == verify(v_answer, v_nev, [v_cfg EXCEPT !.similarity_threshold = t])

\* C15: for the answer, evidence and similarities just verified, a verifier
\* with a lower threshold returns at most as many unsupported sentences as
\* the result, and one with a higher threshold at least as many.
C15_ThresholdMonotone ==
    (v_pc = "done") =>
        \A t \in ThresholdLevels :
            /\ (t <= v_cfg.similarity_threshold) =>
                   Len(V_At(t).unsupported_sentences) <= Len(v_result.unsupported_sentences)
            /\ (t >= v_cfg.similarity_threshold) =>
                   Len(V_At(t).unsupported_sentences) >= Len(v_result.unsupported_sentences)

\* the result has one unsupported sentence of three substantive ones, a
\* lower threshold gives none and a higher one all three
C15_Witness ==
    /\ v_pc = "done" /\ v_nev >= 1
    /\ v_cfg.similarity_threshold = DefaultThreshold
    /\ Cardinality(V_SubstantiveIdx) = 3
    /\ Len(v_result.unsupported_sentences) = 1
    /\ Len(V_At(0).unsupported_sentences) = 0
    /\ Len(V_At(DefaultThreshold + 1).unsupported_sentences)
           > Len(v_result.unsupported_sentences)

\* the sentences of the answer at the positions of S, in order
RECURSIVE V_Pick(_, _)
V_Pick(S, i) ==
    IF i > Len(v_answer) THEN <<>>
    ELSE (IF i \in S THEN <<v_answer[i]>> ELSE <<>>) \o V_Pick(S, i + 1)

\* the substantive sentences whose similarity to every evidence chunk is
\* below 1.0
V_BelowOneIdx ==
    { i \in V_SubstantiveIdx : \A j \in 1..v_nev : Cosine(v_answer[i], j) < 100 }

\* C16 (as claimed): with similarity_threshold 1.0, every substantive
\* sentence is returned as unsupported, one whose best similarity is
\* exactly 1.0 included.
C16_ThresholdOneRejectsAll ==
    (v_pc = "done" /\ v_cfg.similarity_threshold = 100 /\ v_nev >= 1) =>
        v_result.unsupported_sentences = V_Pick(V_SubstantiveIdx, 1)

\* C16 (amended): with similarity_threshold 1.0, the unsupported sentences
\* are exactly the substantive sentences whose best similarity is below
\* 1.0; a sentence whose best similarity is exactly 1.0 is not among them.
C16_ThresholdOneRejectsBelowOne ==
    (v_pc = "done" /\ v_cfg.similarity_threshold = 100 /\ v_nev >= 1) =>
        v_result.unsupported_sentences = V_Pick(V_BelowOneIdx, 1)

\* threshold 1.0, one sentence at similarity exactly 1.0 and one below:
\* only the second is unsupported
C16_Witness ==
    /\ v_pc = "done" /\ v_cfg.similarity_threshold = 100 /\ v_nev >= 1
    /\ Cardinality(V_SubstantiveIdx) = 2
    /\ Cardinality(V_BelowOneIdx) = 1
    /\ Len(v_result.unsupported_sentences) = 1

\* C17 (as claimed): every result has one of the three verdicts, and its
\* confidence and support_ratio lie within [0, 1].
C17_ResultRanges ==
    (v_pc = "done") =>
        /\ v_result.verdict \in {"supported", "partially_supported", "unsupported"}
        /\ ~FracGt(Zero, v_result.confidence) /\ ~FracGt(v_result.confidence, One)
        /\ ~FracGt(Zero, v_result.support_ratio) /\ ~FracGt(v_result.support_ratio, One)

----------------------------------------------------------------------------
(* SpecPipeline: one call of run_query_pipeline(question, encoder, index,  *)
(* reranker, llm), made directly or by ask_question.  The encoder, the     *)
(* reranker's model, the generator and the verifier's model are external:  *)
(* each call either returns or raises.  The index is a FaissIndex whose    *)
(* vector count and metadata list may disagree (SpecIndex reaches such     *)
(* states).  The reranker argument is either the CrossEncoderReranker or a *)
(* test double (tests/test_pipeline.py:24-29) that may return nothing.     *)

Chunk(i) ==
    [chunk_id |-> i, doc_id |-> (i + 1) \div 2, page_start |-> i,
     page_end |-> i + 1, text |-> i]

\* self.chunks of an index holding the first n chunks
ChunkList(n) == [i \in 1..n |-> Chunk(i)]

QueryScores(n) == [1..n -> {40, 80}]
CrossScores(n) == [1..n -> {1, 2}]

\* What the generator may write: a short aside, a grounded sentence citing
\* E1, a grounded sentence citing E2 then E1 and an id never shown, and an
\* ungrounded sentence without citation.
GeneratedSentences ==
    { [body |-> 10, opener |-> "plain", cites |-> <<>>, best |-> LowSim, at |-> 1],
      [body |-> 30, opener |-> "plain", cites |-> <<1>>, best |-> 100, at |-> 1],
      [body |-> 40, opener |-> "plain", cites |-> <<2, MaxChunks + 1, 1, 2>>,
       best |-> DefaultThreshold, at |-> 1],
      [body |-> 50, opener |-> "plain", cites |-> <<>>,
       best |-> DefaultThreshold - 1, at |-> 1] }

RECURSIVE SeqsUpTo(_, _)
\* all sequences over S of length at most n
SeqsUpTo(S, n) ==
    IF n = 0 THEN {<<>>}
    ELSE LET shorter == SeqsUpTo(S, n - 1)
         IN  shorter \cup {Append(t, x) : t \in shorter, x \in S}

GeneratedAnswers == SeqsUpTo(GeneratedSentences, MaxAnswerLen)

Q_Init ==
    /\ q_caller \in {"direct", "ask_question"}
    /\ q_question \in {"", "q"}
    /\ q_caller = "direct" => q_question = "q"
    /\ q_pc = IF q_caller = "direct" THEN "check" ELSE "ask"
    /\ q_failed = "none"
    /\ \E n \in 0..MaxChunks, m \in 0..MaxChunks :
           q_index = [ntotal |-> n, chunks |-> ChunkList(m)]
    /\ q_calls = <<>> /\ q_retrieved = <<>> /\ q_evidence = <<>>
    /\ q_answer = <<>> /\ q_cres = [none |-> TRUE] /\ q_vres = NoResult
    /\ q_out = [kind |-> "none"] /\ q_http = [kind |-> "none"]
    /\ V_Idle /\ I_Idle /\ U_Idle /\ C_Idle /\ K_Idle /\ H_Idle /\ W_Idle

Q_Others == <<v_vars, i_vars, u_vars, c_vars, k_vars, h_vars, w_vars>>

\* run_query_pipeline returns `value`
Q_Return(value) ==
    /\ q_out' = Return(value)
    /\ q_pc' = "returned"

\* app.py:105-106  a blank question is rejected with HTTP 400
Ask_RejectBlank ==
    /\ q_pc = "ask" /\ q_question = ""
    /\ q_http' = [kind |-> "raise", status |-> 400]
    /\ q_pc' = "done"
    /\ UNCHANGED <<q_caller, q_question, q_failed, q_index, q_calls, q_retrieved,
                   q_evidence, q_answer, q_cres, q_vres, q_out, Q_Others>>

\* app.py:109-112  the four singletons are obtained
Ask_GetDependencies ==
    /\ q_pc = "ask" /\ q_question # ""
    /\ q_pc' = "check"
    /\ UNCHANGED <<q_caller, q_question, q_failed, q_index, q_calls, q_retrieved,
                   q_evidence, q_answer, q_cres, q_vres, q_out, q_http, Q_Others>>

\* app.py:109-112  a singleton's constructor raises (LLMClient without its
\* configuration, a model that cannot be loaded, an index that cannot be read)
Ask_GetDependenciesFails ==
    /\ q_pc = "ask" /\ q_question # ""
    /\ q_http' = AskOnException
    /\ q_failed' = "dependencies"
    /\ q_pc' = "done"
    /\ UNCHANGED <<q_caller, q_question, q_index, q_calls, q_retrieved,
                   q_evidence, q_answer, q_cres, q_vres, q_out, Q_Others>>

\* query_pipeline.py:25-30
P_CheckIndex ==
    /\ q_pc = "check"
    /\ IF IndexIsEmpty(q_index)
       THEN Q_Return(Refusal(NO_DOCS))
       ELSE q_pc' = "embed" /\ UNCHANGED q_out
    /\ UNCHANGED <<q_caller, q_question, q_failed, q_index, q_calls, q_retrieved,
                   q_evidence, q_answer, q_cres, q_vres, q_http, Q_Others>>

\* query_pipeline.py:32  encoder.embed_query(question) returns
P_Embed ==
    /\ q_pc = "embed"
    /\ q_calls' = Append(q_calls, "embed_query")
    /\ q_pc' = "search"
    /\ UNCHANGED <<q_caller, q_question, q_failed, q_index, q_retrieved, q_evidence,
                   q_answer, q_cres, q_vres, q_out, q_http, Q_Others>>

\* query_pipeline.py:33-41  index.search and the empty-retrieval guard
P_Search ==
    /\ q_pc = "search"
    /\ q_calls' = Append(q_calls, "search")
    /\ \E qscore \in QueryScores(q_index.ntotal) :
           q_retrieved' = FaissIndex_search(q_index.ntotal, q_index.chunks, qscore, TopK)
    /\ IF RetrievedIsEmpty(q_retrieved')
       THEN Q_Return(Refusal(CANNOT_ANSWER))
       ELSE q_pc' = "rerank" /\ UNCHANGED q_out
    /\ UNCHANGED <<q_caller, q_question, q_failed, q_index, q_evidence,
                   q_answer, q_cres, q_vres, q_http, Q_Others>>

\* query_pipeline.py:43-55  reranker.rerank and the empty-evidence guard
P_Rerank ==
    /\ q_pc = "rerank"
    /\ q_calls' = Append(q_calls, "rerank")
    /\ \/ \E xscore \in CrossScores(Len(q_retrieved)) :
              q_evidence' = rerank(q_retrieved, xscore, MaxPassages, TopN)
       \/ q_evidence' = <<>>
    /\ IF EvidenceIsEmpty(q_evidence')
       THEN Q_Return(Refusal(CANNOT_ANSWER))
       ELSE q_pc' = "generate" /\ UNCHANGED q_out
    /\ UNCHANGED <<q_caller, q_question, q_failed, q_index, q_retrieved,
                   q_answer, q_cres, q_vres, q_http, Q_Others>>

\* query_pipeline.py:57-61  llm.generate(prompt) returns a text
P_Generate ==
    /\ q_pc = "generate"
    /\ q_calls' = Append(q_calls, "generate")
    /\ \E a \in GeneratedAnswers : q_answer' = a
    /\ q_pc' = "extract"
    /\ UNCHANGED <<q_caller, q_question, q_failed, q_index, q_retrieved, q_evidence,
                   q_cres, q_vres, q_out, q_http, Q_Others>>

\* query_pipeline.py:62-68  llm.generate(prompt) raises
P_GenerateFails ==
    /\ q_pc = "generate"
    /\ q_calls' = Append(q_calls, "generate")
    /\ q_out' = OnGenerateFailure
    /\ q_failed' = "generate"
    /\ q_pc' = IF OnGenerateFailure.kind = "return" THEN "returned" ELSE "raised"
    /\ UNCHANGED <<q_caller, q_question, q_index, q_retrieved, q_evidence,
                   q_answer, q_cres, q_vres, q_http, Q_Others>>

\* query_pipeline.py:71-72
P_Extract ==
    /\ q_pc = "extract"
    /\ q_calls' = Append(q_calls, "extract_and_map")
    /\ q_cres' = extract_and_map(q_answer, q_evidence)
    /\ q_pc' = "verify"
    /\ UNCHANGED <<q_caller, q_question, q_failed, q_index, q_retrieved, q_evidence,
                   q_answer, q_vres, q_out, q_http, Q_Others>>

\* query_pipeline.py:75-126  verifier.verify returns; the verdict is dispatched
P_VerifyAndDispatch ==
    /\ q_pc = "verify"
    /\ q_calls' = Append(q_calls, "verify")
    /\ q_vres' = verify(q_answer, Len(q_evidence), DefaultConfig)
    /\ Q_Return(Dispatch(q_answer, q_vres', q_cres))
    /\ UNCHANGED <<q_caller, q_question, q_failed, q_index, q_retrieved, q_evidence,
                   q_answer, q_cres, q_http, Q_Others>>

\* A collaborator called outside any try block raises: embed_query (line
\* 32), index.search (33), reranker.rerank (43), verifier.verify (76, whose
\* model.encode is external).  The exception leaves run_query_pipeline.
FailableSteps == {"embed", "search", "rerank", "verify"}

CallOf(step) == IF step = "embed" THEN "embed_query" ELSE step

P_StepFails ==
    /\ q_pc \in FailableSteps
    /\ q_calls' = Append(q_calls, CallOf(q_pc))
    /\ q_out' = Raise(q_pc)
    /\ q_failed' = q_pc
    /\ q_pc' = "raised"
    /\ UNCHANGED <<q_caller, q_question, q_index, q_retrieved, q_evidence,
                   q_answer, q_cres, q_vres, q_http, Q_Others>>

\* app.py:114  ask_question returns what run_query_pipeline returned
Ask_Return ==
    /\ q_caller = "ask_question" /\ q_pc = "returned"
    /\ q_http' = Return(q_out.value)
    /\ q_pc' = "done"
    /\ UNCHANGED <<q_caller, q_question, q_failed, q_index, q_calls, q_retrieved,
                   q_evidence, q_answer, q_cres, q_vres, q_out, Q_Others>>

\* app.py:115-121  ask_question catches what run_query_pipeline raised
Ask_Catch ==
    /\ q_caller = "ask_question" /\ q_pc = "raised"
    /\ q_http' = AskOnException
    /\ q_pc' = "done"
    /\ UNCHANGED <<q_caller, q_question, q_failed, q_index, q_calls, q_retrieved,
                   q_evidence, q_answer, q_cres, q_vres, q_out, Q_Others>>

Q_Next ==
    \/ Ask_RejectBlank \/ Ask_GetDependencies \/ Ask_GetDependenciesFails
    \/ P_CheckIndex \/ P_Embed \/ P_Search \/ P_Rerank
    \/ P_Generate \/ P_GenerateFails \/ P_Extract \/ P_VerifyAndDispatch
    \/ P_StepFails \/ Ask_Return \/ Ask_Catch

SpecPipeline == Q_Init /\ [][Q_Next]_vars

----------------------------------------------------------------------------
(* Claims on run_query_pipeline and ask_question *)

Q_Called(name) == \E i \in 1..Len(q_calls) : q_calls[i] = name

\* run_query_pipeline was entered and went past its first guard
Q_Started ==
    \/ q_pc \in {"embed", "search", "rerank", "generate", "extract", "verify",
                 "returned", "raised"}
    \/ q_pc = "done" /\ q_out.kind # "none"

\* C1: when verify returns "unsupported", run_query_pipeline returns verdict
\* "refused" with the fixed refusal text as answer, the verifier's
\* unsupported_sentences attached and citation_coverage 0.
C1_UnsupportedIsRefused ==
    (q_vres.verdict = "unsupported") =>
        /\ q_out.kind = "return"
        /\ q_out.value.verdict = "refused"
        /\ q_out.value.answer = CANNOT_ANSWER
        /\ q_out.value.unsupported_sentences = q_vres.unsupported_sentences
        /\ q_out.value.citation_coverage = Zero

\* C1 witness: an answer with unsupported sentences was refused.
C1_Witness ==
    /\ q_vres.verdict = "unsupported"
    /\ q_vres.unsupported_sentences # <<>>
    /\ q_answer # <<>>
    /\ q_out.kind = "return" /\ q_out.value.verdict = "refused"
    /\ q_out.value.unsupported_sentences = q_vres.unsupported_sentences

\* C3: with zero chunks in the index, run_query_pipeline answers "refused"
\* with the no-documents text and calls neither the encoder, index.search,
\* the reranker nor the generator.
C3_EmptyIndexRefused ==
    (q_index.chunks = <<>> /\ Q_Started) =>
        /\ q_out = Return(Refusal(NO_DOCS))
        /\ q_calls = <<>>

\* C3 witness: the index holds no chunk (but a vector) and the query was
\* refused.
C3_Witness ==
    /\ q_index.chunks = <<>> /\ q_index.ntotal > 0
    /\ q_out = Return(Refusal(NO_DOCS))

\* C4: when llm.generate raises, run_query_pipeline returns "refused" with
\* the temporarily-unavailable text; nothing is raised and neither
\* extract_and_map nor verify runs.
C4_GenerationFailureRefused ==
    (q_failed = "generate") =>
        /\ q_out = Return(Refusal(LLM_UNAVAILABLE))
        /\ ~Q_Called("extract_and_map") /\ ~Q_Called("verify")
        /\ q_http.kind # "raise"
        /\ q_pc = "done" => q_http = Return(Refusal(LLM_UNAVAILABLE))

\* C4 witness: the generator raised inside a request made through /ask.
C4_Witness ==
    /\ q_failed = "generate" /\ q_pc = "done"
    /\ q_http = Return(Refusal(LLM_UNAVAILABLE))

\* C5 (as claimed): whichever step of run_query_pipeline fails, the function
\* returns a "refused" response and raises nothing.
C5_EveryStepFailsClosed ==
    (q_failed \in FailableSteps \cup {"generate"}) =>
        /\ q_out.kind = "return"
        /\ q_out.value.verdict = "refused"

\* C6: for a non-blank question, ask_question ends by returning, and after
\* any failure on the query path what it returns is "refused" with an empty
\* citations list.
C6_AskFailsClosed ==
    (q_caller = "ask_question" /\ q_question # "") =>
        /\ q_http.kind # "raise"
        /\ q_pc = "done" => q_http.kind = "return"
        /\ (q_pc = "done" /\ q_failed # "none") =>
               /\ q_http.value.verdict = "refused"
               /\ q_http.value.citations = <<>>

\* C6 witness: embed_query raised and /ask answered with the internal-error
\* refusal.
C6_Witness ==
    /\ q_caller = "ask_question" /\ q_failed = "embed" /\ q_pc = "done"
    /\ q_http = Return(Refusal(INTERNAL_ERROR))

Q_SearchedEmpty == Q_Called("search") /\ q_failed # "search" /\ q_retrieved = <<>>
Q_RerankedEmpty == Q_Called("rerank") /\ q_failed # "rerank" /\ q_evidence = <<>>

\* C7: an empty search result or an empty rerank result is answered
\* "refused" with the cannot-answer text; the generator is called at most
\* once, and only after the index, retrieval and rerank guards passed in
\* that order.
C7_GuardsBeforeGeneration ==
    /\ (Q_SearchedEmpty \/ Q_RerankedEmpty) =>
           q_out = Return(Refusal(CANNOT_ANSWER))
    /\ Cardinality({i \in 1..Len(q_calls) : q_calls[i] = "generate"}) <= 1
    /\ Q_Called("generate") =>
           /\ q_index.chunks # <<>> /\ q_retrieved # <<>> /\ q_evidence # <<>>
           /\ SubSeq(q_calls, 1, 4) = <<"embed_query", "search", "rerank", "generate">>

\* C7 witness: retrieval found chunks, rerank returned nothing, the query
\* was refused and the generator was never called.
C7_Witness ==
    /\ Q_RerankedEmpty /\ q_retrieved # <<>>
    /\ q_out = Return(Refusal(CANNOT_ANSWER))
    /\ ~Q_Called("generate")

\* citations[k] is built from inline_citations[k]
Q_CitationsFollow(citations, inline) ==
    /\ Len(citations) = Len(inline)
    /\ \A k \in 1..Len(inline) :
           /\ citations[k].evidence_id = inline[k].evidence_id
           /\ citations[k].doc_id = inline[k].doc_id
           /\ citations[k].pages = <<inline[k].page_start, inline[k].page_end>>
           /\ citations[k].text_preview = inline[k].text_preview

\* C8: verdict "supported" returns the generated text unchanged with
\* citations, confidence and citation_coverage; "partially_supported"
\* returns the generated text followed by the caveat, with citations,
\* confidence, support_ratio, citation_coverage and uncited_sentences; the
\* citations follow inline_citations entry by entry.
C8_SupportedResponses ==
    /\ (q_vres.verdict = "supported") =>
           /\ q_out.kind = "return"
           /\ DOMAIN q_out.value =
                  {"answer", "verdict", "citations", "confidence", "citation_coverage"}
           /\ q_out.value.verdict = "supported"
           /\ q_out.value.answer = q_answer
           /\ q_out.value.confidence = q_vres.confidence
           /\ q_out.value.citation_coverage = q_cres.citation_coverage
           /\ Q_CitationsFollow(q_out.value.citations, q_cres.inline_citations)
    /\ (q_vres.verdict = "partially_supported") =>
           /\ q_out.kind = "return"
           /\ DOMAIN q_out.value =
                  {"answer", "verdict", "citations", "confidence", "support_ratio",
                   "citation_coverage", "uncited_sentences"}
           /\ q_out.value.verdict = "partially_supported"
           /\ q_out.value.answer = q_answer \o CAVEAT
           /\ q_out.value.confidence = q_vres.confidence
           /\ q_out.value.support_ratio = q_vres.support_ratio
           /\ q_out.value.citation_coverage = q_cres.citation_coverage
           /\ q_out.value.uncited_sentences = q_cres.uncited_sentences
           /\ Q_CitationsFollow(q_out.value.citations, q_cres.inline_citations)

\* C8 witness: a partially supported answer citing E2 before E1.
C8_Witness ==
    /\ q_vres.verdict = "partially_supported"
    /\ q_out.kind = "return"
    /\ Len(q_out.value.citations) = 2
    /\ q_out.value.citations[1].evidence_id = 2
    /\ q_out.value.citations[2].evidence_id = 1

----------------------------------------------------------------------------
(* FaissIndex: self.index (i_vecs), self.chunks (i_chunks) and the two     *)
(* files.  A vector is represented by the embedding it was built from, and *)
(* the embedding of chunk c is c.chunk_id, so "metadata entry i describes  *)
(* vector i" reads i_chunks[i].chunk_id = i_vecs[i].  Each method is cut   *)
(* at the points where another thread, an exception or the end of the      *)
(* process can come between two of its effects; i_pc is the position.      *)

\* a chunk as ingest_document hands it to index.add: with its embedding
EmbeddedChunk(i) ==
    [chunk_id |-> i, doc_id |-> (i + 1) \div 2, page_start |-> i,
     page_end |-> i + 1, text |-> i, embedding |-> i]

\* Mutation of StripEmbedding: the entry is stored with its embedding.
StripEmbeddingKept(c) == c

\* faiss_index.py:58  {k: v for k, v in c.items() if k != "embedding"}
StripEmbedding(c) == [k \in (DOMAIN c) \ {"embedding"} |-> c[k]]

\* faiss_index.py:53  np.vstack([c["embedding"] for c in chunks])
Embeddings(chunks) == [k \in 1..Len(chunks) |-> chunks[k].embedding]

\* position i of the metadata describes vector i, for every i
Aligned(vecs, chunks) ==
    /\ Len(vecs) = Len(chunks)
    /\ \A k \in 1..Len(vecs) : chunks[k].chunk_id = vecs[k]

\* FaissIndex.add, lines 50-54: the vectors go into self.index
Index_add_vectors(chunks) ==
    /\ i_vecs' = i_vecs \o Embeddings(chunks)
    /\ i_arg' = chunks
    /\ i_pc' = "add_meta"
    /\ UNCHANGED <<i_chunks, f_index, f_meta>>

\* FaissIndex.add, lines 57-59: one turn of the loop appending metadata
Index_add_meta ==
    /\ i_pc = "add_meta"
    /\ i_chunks' = Append(i_chunks, StripEmbedding(Head(i_arg)))
    /\ i_arg' = Tail(i_arg)
    /\ i_pc' = IF Tail(i_arg) = <<>> THEN "ready" ELSE "add_meta"
    /\ UNCHANGED <<i_vecs, f_index, f_meta>>

\* FaissIndex.clear, line 83: self.index = faiss.IndexFlatIP(self.dim)
Index_clear_vectors ==
    /\ i_vecs' = <<>>
    /\ i_pc' = "clear_chunks"
    /\ UNCHANGED <<i_chunks, f_index, f_meta, i_arg>>

\* FaissIndex.clear, line 84: self.chunks = []
Index_clear_chunks ==
    /\ i_pc = "clear_chunks"
    /\ i_chunks' = <<>>
    /\ i_pc' = "clear_index_file"
    /\ UNCHANGED <<i_vecs, f_index, f_meta, i_arg>>

\* FaissIndex.clear, lines 86-87: the index file is unlinked
Index_clear_index_file ==
    /\ i_pc = "clear_index_file"
    /\ f_index' = NoFile
    /\ i_pc' = "clear_meta_file"
    /\ UNCHANGED <<i_vecs, i_chunks, f_meta, i_arg>>

\* FaissIndex.clear, lines 88-89: the metadata file is unlinked
Index_clear_meta_file ==
    /\ i_pc = "clear_meta_file"
    /\ f_meta' = NoFile
    /\ i_pc' = "ready"
    /\ UNCHANGED <<i_vecs, i_chunks, f_index, i_arg>>

\* Mutation of Index_save_index_file: an index without vectors is written.
Index_save_index_file_empty ==
    /\ f_index' = [vecs |-> <<>>]
    /\ i_pc' = "save_meta"
    /\ UNCHANGED <<i_vecs, i_chunks, f_meta, i_arg>>

\* FaissIndex.save, line 99: faiss.write_index(self.index, index_path)
Index_save_index_file ==
    /\ f_index' = [vecs |-> i_vecs]
    /\ i_pc' = "save_meta"
    /\ UNCHANGED <<i_vecs, i_chunks, f_meta, i_arg>>

\* FaissIndex.save, lines 100-101: pickle.dump(self.chunks, f)
Index_save_meta_file ==
    /\ i_pc = "save_meta"
    /\ f_meta' = [chunks |-> i_chunks]
    /\ i_pc' = "ready"
    /\ UNCHANGED <<i_vecs, i_chunks, f_index, i_arg>>

\* FaissIndex.save, line 100: opening the metadata file raises (the index
\* file of line 99 is already written); save ends by the exception.
Index_save_meta_file_fails ==
    /\ i_pc = "save_meta"
    /\ i_pc' = "raised"
    /\ UNCHANGED <<i_vecs, i_chunks, f_index, f_meta, i_arg>>

\* FaissIndex.load, line 106: self.index = faiss.read_index(index_path);
\* raises, changing nothing, when the file is missing
Index_load_index_file ==
    /\ i_pc = "load_index"
    /\ IF f_index = NoFile
       THEN i_pc' = "raised" /\ UNCHANGED i_vecs
       ELSE i_vecs' = f_index.vecs /\ i_pc' = "load_meta"
    /\ UNCHANGED <<i_chunks, f_index, f_meta, i_arg>>

\* FaissIndex.load, lines 107-108: self.chunks = pickle.load(f); raises,
\* with self.index already replaced, when the file is missing
Index_load_meta_file ==
    /\ i_pc = "load_meta"
    /\ IF f_meta = NoFile
       THEN i_pc' = "raised" /\ UNCHANGED i_chunks
       ELSE i_pc' = "ready" /\ i_chunks' = f_meta.chunks
    /\ UNCHANGED <<i_vecs, f_index, f_meta, i_arg>>

\* FaissIndex.load_or_create, lines 38-46: load() when both files exist,
\* otherwise the index stays as it is and the call returns
Index_load_or_create ==
    /\ i_pc = "load_or_create"
    /\ i_pc' = IF f_index # NoFile /\ f_meta # NoFile THEN "load_index" ELSE "ready"
    /\ UNCHANGED <<i_vecs, i_chunks, f_index, f_meta, i_arg>>

----------------------------------------------------------------------------
(* SpecIndex: one process using one FaissIndex, one call at a time.  The   *)
(* process may end at any point (between the two writes of save, too) and  *)
(* be started again: dependencies.get_index builds a FaissIndex and calls  *)
(* load_or_create.                                                         *)

AddArguments == SeqsUpTo({EmbeddedChunk(i) : i \in 1..(MaxChunks + 1)}, 2)

I_Others == <<v_vars, q_vars, u_vars, c_vars, k_vars, h_vars, w_vars>>

I_Init ==
    /\ i_vecs = <<>> /\ i_chunks = <<>>
    /\ f_index = NoFile /\ f_meta = NoFile
    /\ i_pc = "ready" /\ i_arg = <<>> /\ i_ops = 0
    /\ i_call = NoCall /\ i_trip = NoTrip
    /\ V_Idle /\ Q_Idle /\ U_Idle /\ C_Idle /\ K_Idle /\ H_Idle /\ W_Idle

\* no call is in progress: the last one returned ("ready") or ended by an
\* exception ("raised")
I_BetweenCalls == i_pc \in {"ready", "raised"}

I_CanStart == I_BetweenCalls /\ i_ops < MaxOps

\* a call begins: its name, its argument and the index as it finds it
I_Enter(name, arg) ==
    /\ i_call' = [name |-> name, arg |-> arg, vecs |-> i_vecs, chunks |-> i_chunks]
    /\ i_ops' = i_ops + 1

\* a call other than a load begins: it ends a save-then-load in progress
I_EnterOther(name, arg) == I_Enter(name, arg) /\ i_trip' = NoTrip

\* a load begins: when a save has just completed, this is its load
I_EnterLoad(name) ==
    /\ I_Enter(name, <<>>)
    /\ i_trip' = IF i_trip.stage \in {"saved", "loading"}
                 THEN [i_trip EXCEPT !.stage = "loading"]
                 ELSE NoTrip

\* a later step of the call in progress
I_Step == UNCHANGED <<i_ops, i_call, I_Others>>

\* index.add(chunks), chunks not empty
I_Add ==
    /\ I_CanStart
    /\ \E chunks \in AddArguments \ {<<>>} :
           /\ Len(i_vecs) + Len(chunks) <= MaxStored
           /\ Index_add_vectors(chunks)
           /\ I_EnterOther("add", chunks)
    /\ UNCHANGED I_Others

\* index.add([]): line 50 returns at once
I_AddNothing ==
    /\ I_CanStart
    /\ I_EnterOther("add", <<>>)
    /\ i_pc' = "ready"
    /\ UNCHANGED <<i_vecs, i_chunks, f_index, f_meta, i_arg, I_Others>>

I_AddMeta == Index_add_meta /\ UNCHANGED i_trip /\ I_Step

\* index.clear()
I_Clear ==
    /\ I_CanStart
    /\ Index_clear_vectors
    /\ I_EnterOther("clear", <<>>)
    /\ UNCHANGED I_Others

I_ClearChunks == Index_clear_chunks /\ UNCHANGED i_trip /\ I_Step
I_ClearIndexFile == Index_clear_index_file /\ UNCHANGED i_trip /\ I_Step
I_ClearMetaFile == Index_clear_meta_file /\ UNCHANGED i_trip /\ I_Step

\* index.save()
I_Save ==
    /\ I_CanStart
    /\ Index_save_index_file
    /\ I_EnterOther("save", <<>>)
    /\ UNCHANGED I_Others

\* save() returns: both files are written
I_SaveMeta ==
    /\ Index_save_meta_file
    /\ i_trip' = [stage |-> "saved", vecs |-> i_call.vecs, chunks |-> i_call.chunks]
    /\ I_Step

I_SaveMetaFails == Index_save_meta_file_fails /\ UNCHANGED i_trip /\ I_Step

\* index.load()  (dependencies.reload_index)
I_Load ==
    /\ I_CanStart
    /\ i_pc' = "load_index"
    /\ I_EnterLoad("load")
    /\ UNCHANGED <<i_vecs, i_chunks, f_index, f_meta, i_arg, I_Others>>

I_LoadIndexFile ==
    /\ Index_load_index_file
    /\ i_trip' = IF i_pc' = "raised" THEN NoTrip ELSE i_trip
    /\ I_Step

\* load() returns or raises
I_LoadMetaFile ==
    /\ Index_load_meta_file
    /\ i_trip' = IF i_pc' = "ready" /\ i_trip.stage = "loading"
                 THEN [i_trip EXCEPT !.stage = "loaded"]
                 ELSE NoTrip
    /\ I_Step

\* index.load_or_create() on the running process
I_LoadOrCreate ==
    /\ I_CanStart
    /\ i_pc' = "load_or_create"
    /\ I_EnterLoad("load_or_create")
    /\ UNCHANGED <<i_vecs, i_chunks, f_index, f_meta, i_arg, I_Others>>

I_LoadOrCreateCheck ==
    /\ Index_load_or_create
    /\ i_trip' = IF i_pc' = "ready" THEN NoTrip ELSE i_trip
    /\ I_Step

\* The process ends, wherever it is; the next one builds FaissIndex()
\* (empty, files untouched) and calls load_or_create.
I_Restart ==
    /\ i_ops < MaxOps
    /\ i_vecs' = <<>> /\ i_chunks' = <<>> /\ i_arg' = <<>>
    /\ i_pc' = "load_or_create"
    /\ i_call' = [name |-> "load_or_create", arg |-> <<>>, vecs |-> <<>>, chunks |-> <<>>]
    /\ i_ops' = i_ops + 1
    /\ i_trip' = IF i_trip.stage \in {"saved", "loading"}
                 THEN [i_trip EXCEPT !.stage = "loading"]
                 ELSE NoTrip
    /\ UNCHANGED <<f_index, f_meta, I_Others>>

I_Next ==
    \/ I_Add \/ I_AddNothing \/ I_AddMeta
    \/ I_Clear \/ I_ClearChunks \/ I_ClearIndexFile \/ I_ClearMetaFile
    \/ I_Save \/ I_SaveMeta \/ I_SaveMetaFails
    \/ I_Load \/ I_LoadIndexFile \/ I_LoadMetaFile
    \/ I_LoadOrCreate \/ I_LoadOrCreateCheck \/ I_Restart

SpecIndex == I_Init /\ [][I_Next]_vars

\* what load_or_create restores from the files as they are
I_Restorable(fi, fm) == fi # NoFile /\ fm # NoFile

\* C9 (as claimed): between calls, vectors and metadata agree entry by
\* entry, in memory and in the pair of files a restart would load, whatever
\* calls, interrupted saves and restarts came before.
C9_AlwaysAligned ==
    I_BetweenCalls =>
        /\ Aligned(i_vecs, i_chunks)
        /\ I_Restorable(f_index, f_meta) => Aligned(f_index.vecs, f_meta.chunks)

\* the two files as a load finds them: exactly one is there, or both are
\* and they disagree
I_FilesBroken(fi, fm) ==
    \/ (fi = NoFile) # (fm = NoFile)
    \/ I_Restorable(fi, fm) /\ ~Aligned(fi.vecs, fm.chunks)

\* C11 (as claimed): whenever load, load_or_create or the load_or_create of
\* a start of the process ends while exactly one of the two files exists or
\* the two files disagree, it ends by an exception, and the index in memory
\* is not partially loaded: its vectors and metadata still agree.
C11_LoadFailsLoudly ==
    [][(/\ i_pc \in {"load_or_create", "load_index", "load_meta"}
        /\ I_FilesBroken(f_index, f_meta)
        /\ i_pc' \in {"ready", "raised"})
       => (i_pc' = "raised" /\ Aligned(i_vecs', i_chunks'))]_vars

\* FaissIndex.chunk_count, get_doc_ids and document_count
chunk_count(chunks) == Len(chunks)
get_doc_ids(chunks) == {chunks[k].doc_id : k \in 1..Len(chunks)}
document_count(chunks) == Cardinality(get_doc_ids(chunks))

\* the query vectors tried, and the inner product (in hundredths) of query
\* q with the stored vector built from embedding v
QueryVectors == 1..(MaxChunks + 1)
InnerProduct(q, v) == 100 - 30 * Abs(q - v)

\* index.search(q, top_k) on an index holding vecs and chunks
Index_search(vecs, chunks, q, top_k) ==
    FaissIndex_search(Len(vecs), chunks,
                      [k \in 1..Len(vecs) |-> InnerProduct(q, vecs[k])], top_k)

\* C12: when save() has been followed by load() (by reload_index on the
\* same FaissIndex, or by load_or_create on a fresh one after a restart),
\* chunk_count, document_count and the set of doc ids are those the index
\* had when save() began, and search returns the same ordered results for
\* every query vector and every top_k.
C12_SaveLoadRoundTrip ==
    (i_trip.stage = "loaded") =>
        /\ chunk_count(i_chunks) = chunk_count(i_trip.chunks)
        /\ document_count(i_chunks) = document_count(i_trip.chunks)
        /\ get_doc_ids(i_chunks) = get_doc_ids(i_trip.chunks)
        /\ \A q \in QueryVectors : \A top_k \in 1..(MaxStored + 1) :
               Index_search(i_vecs, i_chunks, q, top_k)
                   = Index_search(i_trip.vecs, i_trip.chunks, q, top_k)

\* an index of two documents built by add calls went through save() and,
\* after a restart, through the load of a fresh FaissIndex
C12_Witness ==
    /\ i_trip.stage = "loaded"
    /\ i_call.name = "load_or_create"
    /\ document_count(i_chunks) = 2
    /\ Index_search(i_vecs, i_chunks, 1, 2) # <<>>

\* C13: when add(chunks) has returned, self.index and self.chunks are what
\* they were when it began followed by one vector and one metadata entry
\* per chunk, in the order of the argument; no metadata entry has an
\* 'embedding' field; add([]) leaves both as they were.
C13_AddAppends ==
    (i_pc = "ready" /\ i_call.name = "add") =>
        LET n == Len(i_call.arg)
            old == Len(i_call.chunks)
        IN  /\ chunk_count(i_chunks) = old + n
            /\ Len(i_vecs) = Len(i_call.vecs) + n
            /\ SubSeq(i_vecs, 1, Len(i_call.vecs)) = i_call.vecs
            /\ SubSeq(i_chunks, 1, old) = i_call.chunks
            /\ \A k \in 1..n :
                   /\ i_vecs[Len(i_call.vecs) + k] = i_call.arg[k].embedding
                   /\ \A f \in DOMAIN i_chunks[old + k] :
                          i_chunks[old + k][f] = i_call.arg[k][f]
                   /\ DOMAIN i_chunks[old + k] = (DOMAIN i_call.arg[k]) \ {"embedding"}
            /\ \A k \in 1..Len(i_chunks) : "embedding" \notin DOMAIN i_chunks[k]
            /\ (n = 0) => (i_vecs = i_call.vecs /\ i_chunks = i_call.chunks)

\* add of two chunks has returned on an index that already held one
C13_Witness ==
    /\ i_pc = "ready" /\ i_call.name = "add"
    /\ Len(i_call.arg) = 2 /\ Len(i_call.chunks) = 1
    /\ Len(i_chunks) = 3

\* add([]) has returned on an index that is not empty
C13_WitnessEmpty ==
    /\ i_pc = "ready" /\ i_call.name = "add"
    /\ i_call.arg = <<>> /\ Len(i_chunks) > 0

----------------------------------------------------------------------------
(* SpecUpload: one /upload request and one /ask request on the shared      *)
(* index.  Both handlers are plain `def` functions, which FastAPI runs on  *)
(* worker threads, and neither app.py, ingest_document nor FaissIndex      *)
(* takes a lock: the steps of the two requests interleave freely.          *)
(*                                                                         *)
(* The encoder the handlers use is called through embed_query and          *)
(* embed_chunks (query_pipeline.py:32, ingest_document.py:36); it is the   *)
(* external embedder, and a call to it either returns or raises.           *)
(* ingest_document also builds SemanticChunker(encoder_model=...) (line    *)
(* 31): with the SemanticChunker of preprocessing/chunker.py, whose        *)
(* constructor has no such parameter, and with EmbeddingEncoder, which has *)
(* no embed_chunks, these calls raise; with a chunker and an encoder that  *)
(* have the interface the call sites use they return.  Both outcomes are   *)
(* steps of the model (U_IngestFails, U_Add).                              *)

\* the chunks ingest_document builds from document d (two per document)
DocChunks(d) == <<EmbeddedChunk(2 * d - 1), EmbeddedChunk(2 * d)>>

StoredChunks(d) == [k \in 1..2 |-> StripEmbedding(DocChunks(d)[k])]

U_Others == <<v_vars, q_vars, c_vars, k_vars, h_vars, w_vars>>

U_Init ==
    /\ \/ /\ i_vecs = Embeddings(DocChunks(1)) /\ i_chunks = StoredChunks(1)
          /\ f_index = [vecs |-> i_vecs] /\ f_meta = [chunks |-> i_chunks]
       \/ /\ i_vecs = <<>> /\ i_chunks = <<>>
          /\ f_index = NoFile /\ f_meta = NoFile
    /\ i_pc = "ready" /\ i_arg = <<>> /\ i_ops = 0
    /\ i_call = NoCall /\ i_trip = NoTrip
    /\ u_pc = "start" /\ u_doc = 2 /\ u_status = "none" /\ u_failed = "none"
    /\ u_before = [vecs |-> i_vecs, chunks |-> i_chunks]
    /\ r_pc = "check" /\ r_seen = <<>> /\ r_hits = <<>>
    /\ r_resp = [kind |-> "none"]
    /\ V_Idle /\ Q_Idle /\ C_Idle /\ K_Idle /\ H_Idle /\ W_Idle

U_Frame ==
    UNCHANGED <<u_doc, u_before, u_failed, r_pc, r_seen, r_hits, r_resp,
                i_ops, i_call, i_trip, U_Others>>

\* app.py:81-85  index.clear() is entered
U_Clear ==
    /\ u_pc = "start" /\ i_pc = "ready"
    /\ Index_clear_vectors
    /\ u_pc' = "clear"
    /\ UNCHANGED u_status /\ U_Frame

\* the remaining steps of index.clear(), index.add() and index.save()
U_IndexStep ==
    /\ u_pc \in {"clear", "add", "save"}
    /\ \/ Index_clear_chunks
       \/ Index_clear_index_file
       \/ Index_clear_meta_file
       \/ Index_add_meta
       \/ Index_save_meta_file
    /\ UNCHANGED <<u_pc, u_status>> /\ U_Frame

\* ingest_document.py:23-42  load, clean, chunk and embed return, and
\* index.add(chunks) is entered
U_Add ==
    /\ u_pc = "clear" /\ i_pc = "ready"
    /\ Index_add_vectors(DocChunks(u_doc))
    /\ u_pc' = "add"
    /\ UNCHANGED u_status /\ U_Frame

\* Mutation of UploadOnException: the exception is swallowed and the upload
\* answers as if it had succeeded.
UploadOnExceptionSwallowed == "indexed"

\* app.py:89-91  `except Exception` raises HTTPException(500)
UploadOnException == "http_500"

\* ingest_document.py:23-42  load, clean, chunk or embed raises, or
\* index.add raises while stacking the embeddings (faiss_index.py:53-54),
\* before it changes the index; nothing in ingest_document catches it, and
\* app.py:89-91 answers HTTP 500
U_IngestFails ==
    /\ u_pc = "clear" /\ i_pc = "ready"
    /\ u_status' = UploadOnException
    /\ u_failed' = "ingest"
    /\ u_pc' = "done"
    /\ UNCHANGED i_vars /\ UNCHANGED <<u_doc, u_before, r_pc, r_seen, r_hits, r_resp, U_Others>>

\* ingest_document.py:43  index.save() raises: at faiss_index.py:99, before
\* anything is written, or at line 100, with the index file written;
\* app.py:89-91 answers HTTP 500
U_SaveFails ==
    /\ \/ /\ u_pc = "add" /\ i_pc = "ready"
          /\ u_failed' = "save_index"
          /\ i_pc' = "raised"
          /\ UNCHANGED <<i_vecs, i_chunks, f_index, f_meta, i_arg>>
       \/ /\ u_pc = "save"
          /\ Index_save_meta_file_fails
          /\ u_failed' = "save_meta"
    /\ u_status' = UploadOnException
    /\ u_pc' = "done"
    /\ UNCHANGED <<u_doc, u_before, r_pc, r_seen, r_hits, r_resp, i_ops, i_call, i_trip, U_Others>>

\* ingest_document.py:43  index.save() is entered
U_Save ==
    /\ u_pc = "add" /\ i_pc = "ready"
    /\ Index_save_index_file
    /\ u_pc' = "save"
    /\ UNCHANGED u_status /\ U_Frame

\* app.py:93-99  the upload answers "indexed"
U_Respond ==
    /\ u_pc = "save" /\ i_pc = "ready"
    /\ u_status' = "indexed"
    /\ u_pc' = "done"
    /\ UNCHANGED i_vars
    /\ UNCHANGED <<u_doc, u_before, u_failed, r_pc, r_seen, r_hits, r_resp, U_Others>>

R_Frame == UNCHANGED <<i_vars, u_pc, u_doc, u_before, u_status, u_failed, U_Others>>

\* the /ask request reads `what` from the index at step `at`
R_See(at, what) == r_seen' = Append(r_seen, [at |-> at, saw |-> what])

\* query_pipeline.py:25  `if not index.chunks`
R_CheckIndex ==
    /\ r_pc = "check"
    /\ R_See("check", [chunks |-> i_chunks])
    /\ IF IndexIsEmpty([chunks |-> i_chunks])
       THEN r_resp' = Return(Refusal(NO_DOCS)) /\ r_pc' = "done"
       ELSE r_pc' = "embed" /\ UNCHANGED r_resp
    /\ UNCHANGED r_hits /\ R_Frame

\* query_pipeline.py:32  encoder.embed_query returns
R_Embed ==
    /\ r_pc = "embed"
    /\ r_pc' = "ntotal"
    /\ UNCHANGED <<r_seen, r_hits, r_resp>> /\ R_Frame

\* query_pipeline.py:32  encoder.embed_query raises; app.py:115-121
R_EmbedFails ==
    /\ r_pc = "embed"
    /\ r_resp' = AskOnException
    /\ r_pc' = "done"
    /\ UNCHANGED <<r_seen, r_hits>> /\ R_Frame

\* faiss_index.py:65-66  `if self.index.ntotal == 0: return []`, and the
\* empty-retrieval guard of query_pipeline.py:36
R_ReadNtotal ==
    /\ r_pc = "ntotal"
    /\ R_See("ntotal", [ntotal |-> Len(i_vecs)])
    /\ IF Len(i_vecs) = 0
       THEN r_resp' = Return(Refusal(CANNOT_ANSWER)) /\ r_pc' = "done"
       ELSE r_pc' = "faiss" /\ UNCHANGED r_resp
    /\ UNCHANGED r_hits /\ R_Frame

\* faiss_index.py:68-70  self.index.search: the positions of the best
\* vectors, each with its score and the vector that was scored
R_FaissSearch ==
    /\ r_pc = "faiss"
    /\ R_See("faiss", [vecs |-> i_vecs])
    /\ \E qscore \in QueryScores(Len(i_vecs)) :
           LET hits == FaissHits(qscore, TopK)
           IN  r_hits' = [k \in 1..Len(hits) |->
                             [pos |-> hits[k], score |-> qscore[hits[k]],
                              vec |-> i_vecs[hits[k]]]]
    /\ r_pc' = "collect"
    /\ UNCHANGED r_resp /\ R_Frame

\* faiss_index.py:72-79  the loop over the hits, reading self.chunks, and
\* the empty-retrieval guard of query_pipeline.py:36; what follows in
\* run_query_pipeline does not read the index
R_Collect ==
    /\ r_pc = "collect"
    /\ R_See("collect", [chunks |-> i_chunks])
    /\ LET hits == [k \in 1..Len(r_hits) |-> r_hits[k].pos]
           qscore == [p \in Range(hits) |->
                         (CHOOSE h \in Range(r_hits) : h.pos = p).score]
           retrieved == SearchResults(hits, qscore, i_chunks)
       IN  r_resp' = IF RetrievedIsEmpty(retrieved)
                     THEN Return(Refusal(CANNOT_ANSWER))
                     ELSE [kind |-> "retrieved", value |-> retrieved]
    /\ r_pc' = "done"
    /\ UNCHANGED r_hits /\ R_Frame

U_Next ==
    \/ U_Clear \/ U_IndexStep \/ U_Add \/ U_IngestFails \/ U_Save \/ U_SaveFails
    \/ U_Respond
    \/ R_CheckIndex \/ R_Embed \/ R_EmbedFails \/ R_ReadNtotal
    \/ R_FaissSearch \/ R_Collect

SpecUpload == U_Init /\ [][U_Next]_vars

\* what a request reading a complete index [vecs, chunks] would have seen
\* at one step
R_SeenIn(obs, index) ==
    \/ obs.at \in {"check", "collect"} /\ obs.saw.chunks = index.chunks
    \/ obs.at = "ntotal" /\ obs.saw.ntotal = Len(index.vecs)
    \/ obs.at = "faiss" /\ obs.saw.vecs = index.vecs

\* C10 (as claimed): once the upload is over, everything the /ask request
\* read from the index is what the index held before the upload or what it
\* holds after it.
C10_NoTransientIndex ==
    (u_pc = "done") =>
        \A k \in 1..Len(r_seen) :
            \/ R_SeenIn(r_seen[k], u_before)
            \/ R_SeenIn(r_seen[k], [vecs |-> i_vecs, chunks |-> i_chunks])


\* the index a restart would restore: load_or_create loads the two files
\* when both exist, and otherwise leaves a fresh index
U_Persisted ==
    IF I_Restorable(f_index, f_meta)
    THEN [vecs |-> f_index.vecs, chunks |-> f_meta.chunks]
    ELSE [vecs |-> <<>>, chunks |-> <<>>]

\* C26: once the upload is over, it answered HTTP 500 exactly when a step
\* raised and "indexed" exactly when none did, in which case save() has
\* written both files from the index holding the document; after a failure
\* the index is as the steps before the failing one left it: cleared when
\* a step before index.add raised, holding the document with no file when
\* the index file could not be written, and holding the document with the
\* index file alone when the metadata file could not be written.
C26_FailureIsSignaled ==
    /\ (u_status = "indexed") =>
           /\ u_pc = "done" /\ u_failed = "none"
           /\ i_chunks = StoredChunks(u_doc)
           /\ f_index = [vecs |-> Embeddings(DocChunks(u_doc))]
           /\ f_meta = [chunks |-> StoredChunks(u_doc)]
    /\ (u_pc = "done") =>
           /\ (u_failed # "none") <=> (u_status = "http_500")
           /\ (u_failed = "none") <=> (u_status = "indexed")
           /\ (u_failed = "ingest") =>
                  /\ i_vecs = <<>> /\ i_chunks = <<>>
                  /\ f_index = NoFile /\ f_meta = NoFile
           /\ (u_failed = "save_index") =>
                  /\ i_chunks = StoredChunks(u_doc)
                  /\ f_index = NoFile /\ f_meta = NoFile
           /\ (u_failed = "save_meta") =>
                  /\ i_chunks = StoredChunks(u_doc)
                  /\ f_index = [vecs |-> i_vecs] /\ f_meta = NoFile

\* the upload failed while writing the metadata file, on an index that held
\* another document before
C26_Witness ==
    /\ u_pc = "done" /\ u_status = "http_500" /\ u_failed = "save_meta"
    /\ u_before.chunks # <<>>

\* the upload failed before index.add, on an index that held a document
C26_WitnessIngest ==
    /\ u_pc = "done" /\ u_status = "http_500" /\ u_failed = "ingest"
    /\ u_before.chunks # <<>>

\* the upload answered "indexed"
C26_WitnessIndexed == u_pc = "done" /\ u_status = "indexed"

\* C29 (as claimed): every chunk the search of the /ask request returns is
\* the metadata of a vector that was scored for it, with that vector's
\* score: it is never the chunk of another vector or another document.
C29_SearchReturnsScoredChunks ==
    (r_resp.kind = "retrieved") =>
        \A k \in 1..Len(r_resp.value) :
            \E h \in 1..Len(r_hits) :
                /\ r_hits[h].vec = r_resp.value[k].chunk_id
                /\ r_hits[h].score = r_resp.value[k].similarity_score

\* C30 (as claimed): whenever no upload is in progress, also after one that
\* failed, a restart would restore the chunks that the in-memory index
\* holds.
C30_PersistedMatchesMemory ==
    (u_pc \in {"start", "done"}) =>
        /\ U_Persisted.chunks = i_chunks
        /\ U_Persisted.vecs = i_vecs

----------------------------------------------------------------------------
(* SpecCite: PromptBuilder().build and CitationExtractor().extract_and_map *)
(* on the same evidence, as run_query_pipeline calls them (lines 57-72).   *)
(* The evidence is what the reranker argument returned: any list of        *)
(* chunks, of up to MaxEvidenceChunks + MaxExtraEvidence entries.          *)

MaxEvidenceChunks == 8      \* PromptBuilder.__init__ max_evidence_chunks
MaxExtraEvidence == 1
MaxCiteLen == 2

\* PromptBuilder._format_evidence: one block [E<idx> | doc | pages] + text
\* for each of the first max_evidence_chunks chunks, idx counted from 1
PromptBuilder_format_evidence(chunks) ==
    LET shown == Prefix(chunks, MaxEvidenceChunks)
    IN  [idx \in 1..Len(shown) |->
            [evidence_id |-> idx,
             doc_id |-> shown[idx].doc_id,
             page_start |-> shown[idx].page_start,
             page_end |-> shown[idx].page_end,
             text |-> shown[idx].text]]

\* evidence of n chunks, starting at chunk off + 1
CiteEvidence(n, off) == [k \in 1..n |-> Chunk(k + off)]

\* an id no evidence list of the model reaches
DanglingId == MaxEvidenceChunks + MaxExtraEvidence + 1

\* What the generator may write: a short aside; sentences without marker,
\* citing E1, citing only an id that does not exist, citing the id after
\* the last one a prompt can show, citing several ids; a discourse-marker
\* sentence with a marker; a sentence that is short once its marker is
\* stripped; two other discourse openers.
CiteSentences ==
    { [body |-> 10, opener |-> "plain", cites |-> <<>>, best |-> LowSim, at |-> 1],
      [body |-> 30, opener |-> "plain", cites |-> <<>>, best |-> LowSim, at |-> 1],
      [body |-> 30, opener |-> "plain", cites |-> <<1>>, best |-> LowSim, at |-> 1],
      [body |-> 30, opener |-> "plain", cites |-> <<DanglingId>>, best |-> LowSim, at |-> 1],
      [body |-> 30, opener |-> "plain", cites |-> <<MaxEvidenceChunks + 1>>,
       best |-> LowSim, at |-> 1],
      [body |-> 40, opener |-> "plain", cites |-> <<2, DanglingId, 1, 2>>,
       best |-> LowSim, at |-> 1],
      [body |-> 30, opener |-> "based_on_the", cites |-> <<1>>, best |-> LowSim, at |-> 1],
      [body |-> 18, opener |-> "plain", cites |-> <<1>>, best |-> LowSim, at |-> 1],
      [body |-> 30, opener |-> "these_are", cites |-> <<>>, best |-> LowSim, at |-> 1],
      [body |-> 30, opener |-> "based_on_our", cites |-> <<>>, best |-> LowSim, at |-> 1] }

CiteAnswers == SeqsUpTo(CiteSentences, MaxCiteLen)

C_Others == <<v_vars, q_vars, i_vars, u_vars, k_vars, h_vars, w_vars>>

C_Init ==
    /\ c_pc = "prompt"
    /\ \E n \in 0..(MaxEvidenceChunks + MaxExtraEvidence), off \in 0..1 :
           c_evidence = CiteEvidence(n, off)
    /\ c_prompt = <<>> /\ c_answer = <<>> /\ c_cres = [none |-> TRUE]
    /\ V_Idle /\ Q_Idle /\ I_Idle /\ U_Idle /\ K_Idle /\ H_Idle /\ W_Idle

\* query_pipeline.py:57  PromptBuilder().build(question, evidence)
C_BuildPrompt ==
    /\ c_pc = "prompt"
    /\ c_prompt' = PromptBuilder_format_evidence(c_evidence)
    /\ c_pc' = "generate"
    /\ UNCHANGED <<c_evidence, c_answer, c_cres, C_Others>>

\* query_pipeline.py:60  llm.generate(prompt) returns some text
C_Generate ==
    /\ c_pc = "generate"
    /\ \E a \in CiteAnswers : c_answer' = a
    /\ c_pc' = "extract"
    /\ UNCHANGED <<c_evidence, c_prompt, c_cres, C_Others>>

\* query_pipeline.py:71-72  CitationExtractor().extract_and_map(answer, evidence)
C_Extract ==
    /\ c_pc = "extract"
    /\ c_cres' = extract_and_map(c_answer, c_evidence)
    /\ c_pc' = "done"
    /\ UNCHANGED <<c_evidence, c_prompt, c_answer, C_Others>>

C_Next == C_BuildPrompt \/ C_Generate \/ C_Extract

SpecCite == C_Init /\ [][C_Next]_vars

----------------------------------------------------------------------------
(* Claims on the prompt and the extractor *)

\* the ids the prompt showed
C_PromptIds == {c_prompt[k].evidence_id : k \in 1..Len(c_prompt)}

\* the block the prompt showed under id e
C_PromptBlock(e) == CHOOSE b \in Range(c_prompt) : b.evidence_id = e

\* C18 (as claimed): every id the extractor accepts for a marker of the
\* answer is an id the prompt showed, and it maps to the chunk the prompt
\* showed under that id; every id the prompt showed is accepted when the
\* answer cites it.
C18_ExtractorMatchesPrompt ==
    (c_pc = "done") =>
        /\ \A e \in DOMAIN c_cres.citation_map :
               /\ e \in C_PromptIds
               /\ c_cres.citation_map[e].doc_id = C_PromptBlock(e).doc_id
               /\ c_cres.citation_map[e].page_start = C_PromptBlock(e).page_start
               /\ c_cres.citation_map[e].page_end = C_PromptBlock(e).page_end
               /\ c_cres.citation_map[e].text_preview[1] = C_PromptBlock(e).text
        /\ \A e \in Range(AllMarkers(c_answer)) \cap C_PromptIds :
               e \in DOMAIN c_cres.citation_map

\* the positions of the sentences the extractor treats as substantive, and
\* of those that contain a citation marker
C_SubstantiveIdx == {i \in 1..Len(c_answer) : Extractor_is_substantive(c_answer[i])}
C_MarkedIdx == {i \in C_SubstantiveIdx : c_answer[i].cites # <<>>}

\* the sentences of the answer at the positions of S, in order
RECURSIVE C_Pick(_, _)
C_Pick(S, i) ==
    IF i > Len(c_answer) THEN <<>>
    ELSE (IF i \in S THEN <<c_answer[i]>> ELSE <<>>) \o C_Pick(S, i + 1)

\* C19: citation_coverage is cited_substantive / total_substantive, within
\* [0, 1], and 1.0 when no sentence is substantive; uncited_sentences holds
\* exactly the substantive sentences that are not counted as cited, so each
\* substantive sentence is counted once, as cited or as uncited.
C19_CoverageIsFraction ==
    (c_pc = "done") =>
        LET total == Cardinality(C_SubstantiveIdx)
            uncited == Len(c_cres.uncited_sentences)
            cov == c_cres.citation_coverage
        IN  /\ ~FracGt(Zero, cov) /\ ~FracGt(cov, One)
            /\ (total = 0) => (cov = One /\ uncited = 0)
            /\ (total > 0) => cov = Frac(total - uncited, total)
            /\ uncited <= total
            /\ c_cres.uncited_sentences = C_Pick(C_SubstantiveIdx \ C_MarkedIdx, 1)

\* two substantive sentences, one with a marker: coverage 1/2
C19_Witness ==
    /\ c_pc = "done"
    /\ Cardinality(C_SubstantiveIdx) = 2
    /\ Len(c_cres.uncited_sentences) = 1
    /\ c_cres.citation_coverage = Frac(1, 2)

\* no substantive sentence in an answer that is not empty: coverage 1.0
C19_WitnessNone ==
    /\ c_pc = "done" /\ c_answer # <<>> /\ C_SubstantiveIdx = {}
    /\ c_cres.citation_coverage = One

\* the substantive sentences with a marker naming an evidence chunk
C_ValidlyCitedIdx ==
    {i \in C_SubstantiveIdx :
        \E k \in 1..Len(c_answer[i].cites) : c_answer[i].cites[k] \in 1..Len(c_evidence)}

\* C20 (as claimed): citation_coverage is the fraction of substantive
\* sentences with a marker naming an evidence chunk; a substantive sentence
\* whose markers all name ids absent from the evidence is in
\* uncited_sentences.
C20_CoverageCountsValidOnly ==
    (c_pc = "done" /\ C_SubstantiveIdx # {}) =>
        /\ c_cres.citation_coverage
               = Frac(Cardinality(C_ValidlyCitedIdx), Cardinality(C_SubstantiveIdx))
        /\ \A i \in C_SubstantiveIdx \ C_ValidlyCitedIdx :
               c_answer[i] \in Range(c_cres.uncited_sentences)

\* C20 (amended): citation_coverage is the fraction of substantive sentences
\* that contain a citation marker, whatever id it names; a substantive
\* sentence whose markers all name ids absent from the evidence counts as
\* cited, is not in uncited_sentences, and its ids are in invalid_citations.
C20_CoverageCountsAnyMarker ==
    (c_pc = "done" /\ C_SubstantiveIdx # {}) =>
        /\ c_cres.citation_coverage
               = Frac(Cardinality(C_MarkedIdx), Cardinality(C_SubstantiveIdx))
        /\ \A i \in C_MarkedIdx \ C_ValidlyCitedIdx :
               /\ c_answer[i] \notin Range(c_cres.uncited_sentences)
               /\ Range(c_answer[i].cites) \subseteq c_cres.invalid_citations

\* the answer is one substantive sentence citing only an id that is not in
\* the evidence: coverage 1.0, nothing uncited, no citation to show
C20_Witness ==
    /\ c_pc = "done" /\ c_evidence # <<>>
    /\ Len(c_answer) = 1 /\ C_SubstantiveIdx = {1}
    /\ c_answer[1].cites = <<DanglingId>>
    /\ c_cres.citation_coverage = One
    /\ c_cres.uncited_sentences = <<>>
    /\ c_cres.inline_citations = <<>>

\* the ids of inline_citations, in order
C_InlineIds == [k \in 1..Len(c_cres.inline_citations) |-> c_cres.inline_citations[k].evidence_id]

\* the first position of id e among the markers of the answer
C_FirstAt(e) ==
    LET m == AllMarkers(c_answer)
    IN  CHOOSE k \in 1..Len(m) : m[k] = e /\ \A j \in 1..(k - 1) : m[j] # e

\* C21: the distinct ids cited in the answer are split in two: an id absent
\* from the evidence is in invalid_citations and in neither inline_citations
\* nor citation_map; an id of the evidence is in citation_map and not in
\* invalid_citations; inline_citations lists each valid cited id once, in
\* the order of first appearance.
C21_CitationPartition ==
    (c_pc = "done") =>
        LET found == Range(AllMarkers(c_answer))
            ids == 1..Len(c_evidence)
        IN  /\ \A e \in found \ ids :
                   /\ e \in c_cres.invalid_citations
                   /\ e \notin DOMAIN c_cres.citation_map
                   /\ e \notin Range(C_InlineIds)
            /\ \A e \in found \cap ids :
                   /\ e \notin c_cres.invalid_citations
                   /\ e \in DOMAIN c_cres.citation_map
                   /\ c_cres.citation_map[e].evidence_id = e
            /\ c_cres.invalid_citations \cup DOMAIN c_cres.citation_map = found
            /\ Range(C_InlineIds) = found \cap ids
            /\ \A k, l \in 1..Len(C_InlineIds) :
                   (k < l) => /\ C_InlineIds[k] # C_InlineIds[l]
                              /\ C_FirstAt(C_InlineIds[k]) < C_FirstAt(C_InlineIds[l])

\* an answer citing E2, a dangling id, E1 and E2 again: E2 then E1 are
\* listed, the dangling id is reported invalid
C21_Witness ==
    /\ c_pc = "done" /\ Len(c_evidence) >= 2
    /\ C_InlineIds = <<2, 1>>
    /\ c_cres.invalid_citations = {DanglingId}
    /\ Len(AllMarkers(c_answer)) >= 4

\* the positions of the sentences AnswerVerifier treats as substantive
C_VerifierSubstantiveIdx ==
    {i \in 1..Len(c_answer) : Verifier_is_substantive(c_answer[i], MinSentenceLength)}

\* C22 (as claimed): the extractor and the verifier (min_sentence_length 20)
\* classify every sentence of the answer alike, so uncited_sentences holds
\* exactly the sentences without marker that the verifier checks for
\* grounding.
C22_SameFillerRule ==
    (c_pc = "done") =>
        /\ \A i \in 1..Len(c_answer) :
               Extractor_is_substantive(c_answer[i])
                   = Verifier_is_substantive(c_answer[i], MinSentenceLength)
        /\ c_cres.uncited_sentences
               = C_Pick({i \in C_VerifierSubstantiveIdx : c_answer[i].cites = <<>>}, 1)

----------------------------------------------------------------------------
(* SpecRerank: CrossEncoderReranker.rerank on every candidate list of at   *)
(* most MaxCandidates chunks, with every assignment of cross-encoder       *)
(* scores from RerankScores (so that ties happen), a few values of         *)
(* max_passages that truncate and one that does not, and a few of top_n.   *)

RerankScores == {10, 20}

\* candidate i as FaissIndex.search returns it
Candidate(i) == WithScore(StripEmbedding(EmbeddedChunk(i)), 50)

RerankerConfigs ==
    { [max_passages |-> m, top_n |-> n] :
          m \in {1, 2, MaxPassages}, n \in {1, 2, DefaultTopN} }

K_Others == <<v_vars, q_vars, i_vars, u_vars, c_vars, h_vars, w_vars>>

K_Init ==
    /\ k_pc = "build"
    /\ k_candidates = <<>>
    /\ k_xscore = <<>>
    /\ k_cfg \in RerankerConfigs
    /\ k_result = <<>>
    /\ V_Idle /\ Q_Idle /\ I_Idle /\ U_Idle /\ C_Idle /\ H_Idle /\ W_Idle

\* retrieval yields one more chunk, and the cross-encoder has a score for it
K_AddCandidate ==
    /\ k_pc = "build"
    /\ Len(k_candidates) < MaxCandidates
    /\ k_candidates' = Append(k_candidates, Candidate(Len(k_candidates) + 1))
    /\ \E x \in RerankScores : k_xscore' = Append(k_xscore, x)
    /\ UNCHANGED <<k_pc, k_cfg, k_result, K_Others>>

\* rerank(query, retrieved_chunks, top_n); each entry of the result is a
\* copy (dict(chunk), line 74), the candidates stay as they were passed
K_Rerank ==
    /\ k_pc = "build"
    /\ k_result' = rerank(k_candidates, k_xscore, k_cfg.max_passages, k_cfg.top_n)
    /\ k_pc' = "done"
    /\ UNCHANGED <<k_candidates, k_xscore, k_cfg, K_Others>>

K_Next == K_AddCandidate \/ K_Rerank

SpecRerank == K_Init /\ [][K_Next]_vars

\* the candidates the cross-encoder may score: the first max_passages
K_Scored == 1..Min(Len(k_candidates), k_cfg.max_passages)

\* candidate i comes before candidate j in the claimed order
K_Before(i, j) ==
    \/ k_xscore[i] > k_xscore[j]
    \/ k_xscore[i] = k_xscore[j] /\ i < j

\* C23: rerank returns the empty sequence for empty candidates; otherwise
\* the result holds min(top_n, min(len, max_passages)) entries, each one of
\* the first max_passages candidates with its cross_score added; they are
\* in descending cross_score order with ties in candidate order, no
\* candidate left out comes before one returned, and the candidates passed
\* in carry no cross_score afterwards.
C23_RerankContract ==
    (k_pc = "done") =>
        /\ (k_candidates = <<>>) => (k_result = <<>>)
        /\ Len(k_result) = Min(Cardinality(K_Scored), k_cfg.top_n)
        /\ \A k \in 1..Len(k_result) :
               /\ k_result[k].chunk_id \in K_Scored
               /\ k_result[k] = WithCrossScore(k_candidates[k_result[k].chunk_id],
                                               k_xscore[k_result[k].chunk_id])
        /\ \A k, l \in 1..Len(k_result) :
               (k < l) => K_Before(k_result[k].chunk_id, k_result[l].chunk_id)
        /\ \A j \in K_Scored :
               (\A k \in 1..Len(k_result) : k_result[k].chunk_id # j)
                   => \A k \in 1..Len(k_result) : K_Before(k_result[k].chunk_id, j)
        /\ \A i \in 1..Len(k_candidates) :
               /\ k_candidates[i] = Candidate(i)
               /\ "cross_score" \notin DOMAIN k_candidates[i]

\* rerank was given more candidates than max_passages, two of the scored
\* ones tie, and top_n cut the result
C23_Witness ==
    /\ k_pc = "done"
    /\ Len(k_candidates) > k_cfg.max_passages
    /\ k_cfg.max_passages > k_cfg.top_n
    /\ k_xscore[1] = k_xscore[2]
    /\ Len(k_result) = 1

\* rerank returned two tied candidates, both kept
C23_WitnessTie ==
    /\ k_pc = "done"
    /\ Len(k_result) >= 2
    /\ k_result[1].cross_score = k_result[2].cross_score

\* rerank was called without candidates
C23_WitnessEmpty == k_pc = "done" /\ k_candidates = <<>>

----------------------------------------------------------------------------
(* SpecChunk: SemanticChunker.chunk.  The input is what                    *)
(* _split_into_sentences returns for pages given in page order: the kept   *)
(* sentences with their page numbers.  A sentence record holds its length  *)
(* in characters, its page, and whether the opaque embedder puts it below  *)
(* similarity_threshold against the window centroid of the chunk being     *)
(* built.  A chunk's text, " ".join(sentences), is kept as the positions   *)
(* of its sentences.  The parameters are scaled down: short sentences      *)
(* estimate to 6 tokens, long ones to 30, and max_tokens is 18.            *)

SentenceLengths == {24, 120}

ChunkerConfigs ==
    { [max_tokens |-> 18, min_tokens |-> 12, overlap_tokens |-> o] : o \in {0, 6, 12} }

Max(a, b) == IF a >= b THEN a ELSE b

SetMin(S) == CHOOSE x \in S : \A y \in S : x <= y

SetMax(S) == CHOOSE x \in S : \A y \in S : x >= y

\* python's seq[-n:]  (seq[-0:] is the whole list)
LastN(seq, n) ==
    IF n = 0 \/ n >= Len(seq) THEN seq
    ELSE SubSeq(seq, Len(seq) - n + 1, Len(seq))

\* _estimate_tokens: max(1, int(len(text) / 4))
Chunker_estimate_tokens(length) == Max(1, length \div 4)

\* sum(self._estimate_tokens(s) for s in sentences)
TokensOf(sentences) ==
    SumSeq([k \in 1..Len(sentences) |->
               Chunker_estimate_tokens(h_sentences[sentences[k]].len)])

\* _compute_similarity(...) < self.similarity_threshold; the similarity is
\* 1.0 when current_embeddings is empty
Chunker_similarity_below(sentence, current_embeddings) ==
    current_embeddings # <<>> /\ sentence.far

\* _get_overlap: walk the sentences backwards, taking each one, and stop
\* once the tokens taken reach overlap_tokens
RECURSIVE OverlapFrom(_, _, _)
OverlapFrom(sentences, k, tokens) ==
    LET taken == tokens + Chunker_estimate_tokens(h_sentences[sentences[k]].len)
    IN  IF taken >= h_cfg.overlap_tokens \/ k = 1
        THEN SubSeq(sentences, k, Len(sentences))
        ELSE OverlapFrom(sentences, k - 1, taken)

\* Mutation of Chunker_get_overlap: only the last sentence is carried.
Chunker_get_overlap_last(sentences) ==
    IF sentences = <<>> THEN <<>> ELSE <<sentences[Len(sentences)]>>

\* _get_overlap(sentences)
Chunker_get_overlap(sentences) ==
    IF sentences = <<>> THEN <<>> ELSE OverlapFrom(sentences, Len(sentences), 0)

\* Mutation of Chunker_build_chunk: page_end is the page of the first sentence.
Chunker_build_chunk_first_page(sentences, start_idx, end_idx) ==
    [text |-> sentences,
     page_start |-> h_sentences[start_idx + 1].page,
     page_end |-> h_sentences[start_idx + 1].page,
     token_count |-> TokensOf(sentences)]

\* _build_chunk: pages = sentence_pages[start_idx : end_idx + 1]
Chunker_build_chunk(sentences, start_idx, end_idx) ==
    LET pages == { h_sentences[j + 1].page : j \in start_idx..end_idx }
    IN  [text |-> sentences,
         page_start |-> SetMin(pages),
         page_end |-> SetMax(pages),
         token_count |-> TokensOf(sentences)]

H_Others == <<v_vars, q_vars, i_vars, u_vars, c_vars, k_vars, w_vars>>

H_Init ==
    /\ h_pc = "build"
    /\ h_cfg \in ChunkerConfigs
    /\ h_sentences = <<>>
    /\ h_i = 0 /\ h_current = <<>> /\ h_embeddings = <<>>
    /\ h_tokens = 0 /\ h_chunks = <<>>
    /\ V_Idle /\ Q_Idle /\ I_Idle /\ U_Idle /\ C_Idle /\ K_Idle /\ W_Idle

\* the pages hold one more kept sentence, on the page of the one before it
\* or on the next page
H_AddSentence ==
    /\ h_pc = "build"
    /\ Len(h_sentences) < MaxSentences
    /\ \E l \in SentenceLengths, f \in BOOLEAN, step \in {0, 1} :
           LET page == IF h_sentences = <<>> THEN 1
                       ELSE h_sentences[Len(h_sentences)].page + step
           IN  h_sentences' = Append(h_sentences, [len |-> l, page |-> page, far |-> f])
    /\ UNCHANGED <<h_pc, h_cfg, h_i, h_current, h_embeddings, h_tokens, h_chunks, H_Others>>

\* chunk, lines 34-45: the sentences are split and embedded, the
\* accumulators are empty
H_Start ==
    /\ h_pc = "build"
    /\ h_pc' = "loop"
    /\ h_i' = 0 /\ h_current' = <<>> /\ h_embeddings' = <<>>
    /\ h_tokens' = 0 /\ h_chunks' = <<>>
    /\ UNCHANGED <<h_cfg, h_sentences, H_Others>>

\* chunk, lines 47-83: one turn of the loop
H_Iterate ==
    /\ h_pc = "loop"
    /\ h_i < Len(h_sentences)
    /\ LET sentence == h_sentences[h_i + 1]
           sentence_tokens == Chunker_estimate_tokens(sentence.len)
           should_split ==
               \/ h_tokens + sentence_tokens > h_cfg.max_tokens
               \/ /\ Chunker_similarity_below(sentence, h_embeddings)
                  /\ h_tokens >= h_cfg.min_tokens
           closing == should_split /\ h_current # <<>>
           overlap == Chunker_get_overlap(h_current)
           sentences1 == IF closing THEN overlap ELSE h_current
           embeddings1 == IF closing THEN LastN(h_embeddings, Len(overlap))
                          ELSE h_embeddings
           tokens1 == IF closing THEN TokensOf(overlap) ELSE h_tokens
       IN  /\ h_chunks' =
                  IF closing
                  THEN Append(h_chunks,
                              Chunker_build_chunk(h_current, h_i - Len(h_current), h_i - 1))
                  ELSE h_chunks
           /\ h_current' = Append(sentences1, h_i + 1)
           /\ h_embeddings' = Append(embeddings1, h_i + 1)
           /\ h_tokens' = tokens1 + sentence_tokens
    /\ h_i' = h_i + 1
    /\ UNCHANGED <<h_pc, h_cfg, h_sentences, H_Others>>

\* chunk, lines 85-96: the last chunk, and the return
H_Finish ==
    /\ h_pc = "loop"
    /\ h_i = Len(h_sentences)
    /\ h_chunks' =
           IF h_current # <<>>
           THEN Append(h_chunks,
                       Chunker_build_chunk(h_current,
                                           Len(h_sentences) - Len(h_current),
                                           Len(h_sentences) - 1))
           ELSE h_chunks
    /\ h_pc' = "done"
    /\ UNCHANGED <<h_cfg, h_sentences, h_i, h_current, h_embeddings, h_tokens, H_Others>>

H_Next == H_AddSentence \/ H_Start \/ H_Iterate \/ H_Finish

SpecChunk == H_Init /\ [][H_Next]_vars

\* C24 (as claimed): every chunk has token_count <= max_tokens +
\* overlap_tokens.
C24_TokenCountBounded ==
    \A k \in 1..Len(h_chunks) :
        h_chunks[k].token_count <= h_cfg.max_tokens + h_cfg.overlap_tokens

\* the pages of the sentences whose text chunk k contains
H_PagesOf(k) == { h_sentences[h_chunks[k].text[n]].page : n \in 1..Len(h_chunks[k].text) }

\* C25: every chunk has page_start <= page_end, they are the smallest and
\* the largest page of the sentences in the chunk's text, and both are
\* non-decreasing along the output.
C25_PageSpans ==
    /\ \A k \in 1..Len(h_chunks) :
           /\ h_chunks[k].page_start <= h_chunks[k].page_end
           /\ h_chunks[k].page_start = SetMin(H_PagesOf(k))
           /\ h_chunks[k].page_end = SetMax(H_PagesOf(k))
    /\ \A k \in 1..(Len(h_chunks) - 1) :
           /\ h_chunks[k].page_start <= h_chunks[k + 1].page_start
           /\ h_chunks[k].page_end <= h_chunks[k + 1].page_end

\* chunk returned a chunk that spans two pages and begins with an overlap
\* carried from a chunk on the earlier page
C25_Witness ==
    /\ h_pc = "done"
    /\ \E k \in 2..Len(h_chunks) :
           /\ h_chunks[k].page_start < h_chunks[k].page_end
           /\ h_chunks[k - 1].page_end = h_chunks[k].page_start
           /\ h_chunks[k].text[1] = h_chunks[k - 1].text[Len(h_chunks[k - 1].text)]

\* the estimated tokens of the last n sentences of a chunk's text
H_SuffixTokens(text, n) == IF n = 0 THEN 0 ELSE TokensOf(LastN(text, n))

\* the length of the shortest suffix of text, of at least `least` sentences,
\* whose tokens reach overlap_tokens; the whole text when none does
H_CarryLen(text, least) ==
    LET reach == { n \in least..Len(text) : H_SuffixTokens(text, n) >= h_cfg.overlap_tokens }
    IN  IF reach = {} THEN Len(text) ELSE SetMin(reach)

\* what C28 says of the chunks, the carried overlap being the shortest
\* suffix of at least `least` sentences
H_Coverage(least) ==
    /\ (h_pc = "done") =>
           \A n \in 1..Len(h_sentences) :
               \E k \in 1..Len(h_chunks) :
                   \E m \in 1..Len(h_chunks[k].text) : h_chunks[k].text[m] = n
    /\ \A k \in 1..Len(h_chunks) :
           /\ h_chunks[k].text # <<>>
           /\ \A m \in 1..(Len(h_chunks[k].text) - 1) :
                  h_chunks[k].text[m + 1] = h_chunks[k].text[m] + 1
    /\ \A k \in 2..Len(h_chunks) :
           LET prev == h_chunks[k - 1].text
               carry == H_CarryLen(prev, least)
           IN  \* the chunk begins with the last `carry` sentences of the
               \* previous chunk, and what follows them is new
               /\ Len(h_chunks[k].text) > carry
               /\ h_chunks[k].text[1] = prev[Len(prev)] - carry + 1
    /\ h_embeddings = h_current

\* C28 (as claimed): every kept sentence is in a chunk, each chunk is a
\* contiguous run of sentences, every chunk after the first begins with the
\* shortest suffix of the previous chunk whose tokens reach overlap_tokens
\* (the whole chunk if none does), and the carried embeddings stay aligned
\* with the carried sentences.
C28_OverlapIsShortestSuffix == H_Coverage(0)

\* C28 (amended): the same, the carried overlap being the shortest
\* non-empty suffix of the previous chunk whose tokens reach overlap_tokens.
C28_OverlapIsShortestNonEmptySuffix == H_Coverage(1)

\* chunk returned a chunk that begins with two carried sentences, fewer
\* than the previous chunk holds
C28_Witness ==
    /\ h_pc = "done"
    /\ \E k \in 2..Len(h_chunks) :
           /\ H_CarryLen(h_chunks[k - 1].text, 1) = 2
           /\ Len(h_chunks[k - 1].text) > 2

\* chunk carried a whole chunk forward: its tokens do not reach
\* overlap_tokens
C28_WitnessWhole ==
    /\ h_pc = "done"
    /\ \E k \in 2..Len(h_chunks) :
           /\ H_SuffixTokens(h_chunks[k - 1].text, Len(h_chunks[k - 1].text))
                  < h_cfg.overlap_tokens
           /\ h_chunks[k].text[1] = h_chunks[k - 1].text[1]

\* chunk carried one sentence forward although overlap_tokens is zero
C28_WitnessZero ==
    /\ h_pc = "done"
    /\ h_cfg.overlap_tokens = 0
    /\ Len(h_chunks) >= 2

----------------------------------------------------------------------------
(* SpecUploads: two /upload requests on the shared index, uploader u       *)
(* sending document u.  No lock orders them (see SpecUpload).  Here the    *)
(* calls of index.clear, index.add and index.save of the two requests      *)
(* interleave call by call: a call starts when no other call is inside     *)
(* the index.  The interleavings of steps inside a call are those of       *)
(* SpecUpload.                                                             *)

Uploaders == {1, 2}

NoResponse == [status |-> "none"]

W_Others == <<v_vars, q_vars, u_vars, c_vars, k_vars, h_vars>>

W_Init ==
    /\ \/ /\ i_vecs = Embeddings(DocChunks(3)) /\ i_chunks = StoredChunks(3)
          /\ f_index = [vecs |-> i_vecs] /\ f_meta = [chunks |-> i_chunks]
       \/ /\ i_vecs = <<>> /\ i_chunks = <<>>
          /\ f_index = NoFile /\ f_meta = NoFile
    /\ i_pc = "ready" /\ i_arg = <<>> /\ i_ops = 0
    /\ i_call = NoCall /\ i_trip = NoTrip
    /\ w_pc = [u \in Uploaders |-> "start"]
    /\ w_resp = [u \in Uploaders |-> NoResponse]
    /\ V_Idle /\ Q_Idle /\ U_Idle /\ C_Idle /\ K_Idle /\ H_Idle

W_Frame == UNCHANGED <<i_ops, i_call, i_trip, W_Others>>

\* app.py:81-85  index.clear() is entered
W_Clear(u) ==
    /\ w_pc[u] = "start" /\ i_pc = "ready"
    /\ Index_clear_vectors
    /\ w_pc' = [w_pc EXCEPT ![u] = "clear"]
    /\ UNCHANGED w_resp /\ W_Frame

\* the remaining steps of the call of index.clear(), index.add() or
\* index.save() that is inside the index
W_IndexStep ==
    /\ \/ Index_clear_chunks
       \/ Index_clear_index_file
       \/ Index_clear_meta_file
       \/ Index_add_meta
       \/ Index_save_meta_file
    /\ UNCHANGED <<w_pc, w_resp>> /\ W_Frame

\* ingest_document.py:23-42  index.add(chunks) is entered
W_Add(u) ==
    /\ w_pc[u] = "clear" /\ i_pc = "ready"
    /\ Index_add_vectors(DocChunks(u))
    /\ w_pc' = [w_pc EXCEPT ![u] = "add"]
    /\ UNCHANGED w_resp /\ W_Frame

\* ingest_document.py:23-36  a step before index.add raises; app.py:89-91
W_IngestFails(u) ==
    /\ w_pc[u] = "clear" /\ i_pc = "ready"
    /\ w_resp' = [w_resp EXCEPT ![u] = [status |-> UploadOnException]]
    /\ w_pc' = [w_pc EXCEPT ![u] = "done"]
    /\ UNCHANGED i_vars /\ UNCHANGED W_Others

\* ingest_document.py:43  index.save() is entered
W_Save(u) ==
    /\ w_pc[u] = "add" /\ i_pc = "ready"
    /\ Index_save_index_file
    /\ w_pc' = [w_pc EXCEPT ![u] = "save"]
    /\ UNCHANGED w_resp /\ W_Frame

\* app.py:93-99  the upload answers "indexed", with the counts it reads
\* from the index
W_Respond(u) ==
    /\ w_pc[u] = "save" /\ i_pc = "ready"
    /\ w_resp' = [w_resp EXCEPT ![u] =
                     [status |-> "indexed", doc_id |-> u,
                      chunk_count |-> chunk_count(i_chunks),
                      document_count |-> document_count(i_chunks)]]
    /\ w_pc' = [w_pc EXCEPT ![u] = "done"]
    /\ UNCHANGED i_vars /\ UNCHANGED W_Others

W_Next ==
    \/ W_IndexStep
    \/ \E u \in Uploaders :
           \/ W_Clear(u) \/ W_Add(u) \/ W_IngestFails(u) \/ W_Save(u) \/ W_Respond(u)

SpecUploads == W_Init /\ [][W_Next]_vars

\* C27 (as claimed): when an upload returns "indexed", the index holds the
\* chunks of the document it uploaded and no other chunk.
C27_IndexHoldsOnlyTheUpload ==
    [][\A u \in Uploaders :
           (w_pc[u] = "save" /\ w_pc'[u] = "done")
               => /\ i_chunks' = StoredChunks(u)
                  /\ i_vecs' = Embeddings(DocChunks(u))]_vars

=============================================================================
